---- MODULE Spec2Model ----
(***************************************************************************)
(* Cross-chain HTLC swap (source and destination escrow, resolver          *)
(* coordinator) and the PrivacyResolver commit-reveal extension.           *)
(*                                                                         *)
(* The state machines of this module:                                      *)
(*   Spec        - one swap attempt: order, the two escrows, the two       *)
(*                 chains' clocks, token and native balances;              *)
(*   FairSpec    - Spec with the scheduling of the chains and of the       *)
(*                 parties other than one primary actor;                   *)
(*   PrivacySpec - the PrivacyResolver contract: every external function,  *)
(*                 sent by the owner and by another address;               *)
(*   LifecycleSpec - the owner's commitOrder, revealAndScheduleOrder and   *)
(*                 executeDelayedOrder over a longer run;                  *)
(*   MerkleSpec  - the hashlock of a multiple-fill order: the Merkle tree  *)
(*                 of the secrets, the proof of one fill, its check;       *)
(*   CoordinatorSpec - the resolver coordinator's run of one swap: the     *)
(*                 fill and the cancel sequence of main.spec.ts;           *)
(*   ClientSpec  - the PrivacyClient: the commitment it computes off-chain,*)
(*                 submits and reveals.                                    *)
(***************************************************************************)
EXTENDS Integers, Sequences, FiniteSets, TLC

VARIABLES
    order,          \* the maker's signed order (terms, hashlock secret, timelocks)
    now,            \* now[side]: block timestamp of each chain
    escrow,         \* escrow[side]: the escrow instance of each chain
    token,          \* token[side][party]: ERC-20 balance of the swapped asset
    native,         \* native[side][party]: native balance (safety deposits)
    secretShared,   \* the maker has handed the secret to the resolver
    secretPublic,   \* the secret has appeared on-chain in a withdraw
    lastCall,       \* outcome of the transaction of the last step ("-": none)
    pending,        \* pending[side]: seconds of an evm_increaseTime in flight
    blockTime,      \* PrivacyResolver chain: block.timestamp
    commitments,    \* PrivacyResolver.commitments mapping
    delayedOrders,  \* PrivacyResolver.delayedOrders mapping
    fakeVolumes,    \* PrivacyResolver.fakeVolumes of the maker asset
    lastTx,         \* PrivacyResolver: the transaction of the last step
    ghost,          \* history of the PrivacyResolver transactions
    merkle,         \* multiple-fill hashlock: secrets, root, proof of a fill
    coordinator,    \* the resolver coordinator: its sequence and position
    client,         \* the PrivacyClient: the OrderCommitment it holds
    utils,          \* PrivacyUtils: its chain's timestamp, storage, last call
    factory,        \* the TestEscrowFactory deployed on each chain
    sdk             \* the SDK's chain predicates: the chain asked, the answers

swapVars == <<order, now, escrow, token, native, secretShared, secretPublic, lastCall,
              pending>>
privacyVars == <<blockTime, commitments, delayedOrders, fakeVolumes, lastTx, ghost>>
offChainVars == <<merkle, coordinator, client, utils, factory, sdk>>
vars == <<order, now, escrow, token, native, secretShared, secretPublic, lastCall,
          pending,
          blockTime, commitments, delayedOrders, fakeVolumes, lastTx, ghost,
          merkle, coordinator, client, utils, factory, sdk>>

(***************************************************************************)
(* Bounds of the model                                                     *)
(***************************************************************************)
MaxTime == 5
MaxDeployDelay == 1
MaxAmount == 3
MaxSecret == 2
MaxBlocks == 1
MaxClientBlocks == 6
MaxTxs == 4
MaxPrivacyTxs == 2

(***************************************************************************)
(* Parties, sides, funds                                                   *)
(***************************************************************************)
Sides == {"src", "dst"}
Parties == {"maker", "resolver", "other"}
Secrets == 1..MaxSecret

\* The resolver is the taker of both escrows (dst: withTaker(resolver)).
Taker == "resolver"

\* 1000 USDC for the user on the source chain, 2000 for the resolver on the
\* destination chain; native funds of the resolver in safety-deposit units.
MakerSrcFunds == 1000
ResolverDstFunds == 2000
ResolverNativeFunds == 100
SrcSafetyDeposit == 1
DstSafetyDeposit == 1

SafetyDeposit(side) == IF side = "src" THEN SrcSafetyDeposit ELSE DstSafetyDeposit

InitToken ==
    [s \in Sides |-> [p \in Parties |->
        IF s = "src" /\ p = "maker" THEN MakerSrcFunds
        ELSE IF s = "dst" /\ p = "resolver" THEN ResolverDstFunds
        ELSE 0]]

InitNative ==
    [s \in Sides |-> [p \in Parties |-> IF p = "resolver" THEN ResolverNativeFunds ELSE 0]]

(***************************************************************************)
(* HashLock                                                                *)
(***************************************************************************)
\* hashSecret: a hash is modelled as an injective map out of the secret
\* domain (no two secrets of the model collide, none hashes to itself).
HashSecret(secret) == ((secret * 5 + 2) % 7) + 10

(***************************************************************************)
(* TimeLocks                                                               *)
(***************************************************************************)
\* Offsets in the order of the tests' TimeLocks.new (10/120/121/122 and
\* 10/100/101, and 0/... for the cancel test), in units that keep the clock
\* small.  Both have srcCancellation >= dstCancellation.
TimeLockChoices ==
    { [srcWithdrawal |-> 1, srcPublicWithdrawal |-> 2, srcCancellation |-> 3,
       srcPublicCancellation |-> 4,
       dstWithdrawal |-> 1, dstPublicWithdrawal |-> 2, dstCancellation |-> 3],
      [srcWithdrawal |-> 0, srcPublicWithdrawal |-> 2, srcCancellation |-> 3,
       srcPublicCancellation |-> 4,
       dstWithdrawal |-> 0, dstPublicWithdrawal |-> 1, dstCancellation |-> 2] }

WithdrawalOffset(tl, side) ==
    IF side = "src" THEN tl.srcWithdrawal ELSE tl.dstWithdrawal
PublicWithdrawalOffset(tl, side) ==
    IF side = "src" THEN tl.srcPublicWithdrawal ELSE tl.dstPublicWithdrawal
CancellationOffset(tl, side) ==
    IF side = "src" THEN tl.srcCancellation ELSE tl.dstCancellation

\* A public withdrawal that ends when the cancellation begins.
canPublicWithdrawUntilCancellation(tl, side, deployedAt, t) ==
    /\ t >= deployedAt + PublicWithdrawalOffset(tl, side)
    /\ t < deployedAt + CancellationOffset(tl, side)

\* No public withdrawal at all.
canPublicWithdrawNever(tl, side, deployedAt, t) == FALSE

\* A cancellation open from the deployment on.
canCancelAnyTime(tl, side, deployedAt, t) ==
    side = "src" => t < deployedAt + tl.srcPublicCancellation

\* The queries of a side's TimeLocks at time t, for an escrow deployed at
\* deployedAt: each is true from its own offset; a non-public one only until
\* the offset of the next stage (the public withdrawal after the withdrawal,
\* the public cancellation after the cancellation; the destination side has
\* no public cancellation); a public one stays true.
canWithdraw(tl, side, deployedAt, t) ==
    /\ t >= deployedAt + WithdrawalOffset(tl, side)
    /\ t < deployedAt + PublicWithdrawalOffset(tl, side)
canPublicWithdraw(tl, side, deployedAt, t) ==
    t >= deployedAt + PublicWithdrawalOffset(tl, side)
canCancel(tl, side, deployedAt, t) ==
    /\ t >= deployedAt + CancellationOffset(tl, side)
    /\ side = "src" => t < deployedAt + tl.srcPublicCancellation
canPublicCancel(tl, side, deployedAt, t) ==
    /\ side = "src"
    /\ t >= deployedAt + tl.srcPublicCancellation

(***************************************************************************)
(* Order and escrows                                                       *)
(***************************************************************************)
NoEscrow ==
    [status |-> "None", deployedAt |-> 0, amount |-> 0, safetyDeposit |-> 0,
     hashlock |-> 0, taker |-> "-", resolvedAt |-> 0, resolvedBy |-> "-",
     secret |-> 0]

\* No evm_increaseTime request is in flight.
NoRequests == [side \in Sides |-> 0]

\* lastCall when the last step was no transaction.
NoCall == "-"

Resolved == {"Withdrawn", "Cancelled"}

\* Destination amount of a fill: takingAmount * fillAmount / makingAmount in
\* bigint arithmetic (truncating division).
DstAmountCeil(fillAmount) ==
    (order.takingAmount * fillAmount + order.makingAmount - 1) \div order.makingAmount

DstAmount(fillAmount) ==
    (order.takingAmount * fillAmount) \div order.makingAmount

\* Who can present the order's secret: the maker chose it, the resolver has it
\* once the maker shared it, everybody once a withdraw published it.
KnowsSecret(party) ==
    \/ party = "maker"
    \/ party = "resolver" /\ secretShared
    \/ secretPublic

SwapInit ==
    /\ order \in [makingAmount : {MaxAmount}, takingAmount : {MaxAmount - 1},
                  allowMultipleFills : BOOLEAN, secret : {1},
                  timeLocks : TimeLockChoices]
    /\ now = [s \in Sides |-> 0]
    /\ escrow = [s \in Sides |-> NoEscrow]
    /\ token = InitToken
    /\ native = InitNative
    /\ secretShared = FALSE
    /\ secretPublic = FALSE
    /\ lastCall = NoCall
    /\ pending = NoRequests

MIN_COMMIT_DELAY == 300
MAX_COMMIT_DELAY == 3600
MIN_EXECUTION_DELAY == 30
MAX_EXECUTION_DELAY == 600

Senders == {"owner", "stranger"}
\* Seconds between two blocks of the model's chain.
BlockInterval == MIN_COMMIT_DELAY
\* The timestamps of the model: up to MaxBlocks blocks, before or after one
\* wait of MAX_COMMIT_DELAY.
BlockTimes ==
    {a * BlockInterval + b * MAX_COMMIT_DELAY : a \in 0..MaxBlocks, b \in 0..1}

\* orderData: `order` stands for the decoded (order, r, vs), `amount` for the
\* rest of the payload (immutables, amount, takerTraits, args).
\* uint256: sixteen digits of sixteen bits, the least significant first.
DigitBits == 16
DigitBase == 2 ^ DigitBits
DigitCount == 256 \div DigitBits
Digits == 1..DigitCount

\* The uint256 of a number below DigitBase * DigitBase.
Uint256(n) ==
    [i \in Digits |-> IF i = 1 THEN n % DigitBase
                      ELSE IF i = 2 THEN n \div DigitBase ELSE 0]
MaxUint256 == [i \in Digits |-> DigitBase - 1]

\* a * m for a factor m below DigitBase, digit by digit; the last element is
\* the carry that leaves the uint256.
RECURSIVE MulFrom(_, _, _, _)
MulFrom(a, m, i, carry) ==
    IF i > DigitCount THEN <<carry>>
    ELSE LET t == a[i] * m + carry
         IN  <<t % DigitBase>> \o MulFrom(a, m, i + 1, t \div DigitBase)
MulOverflows(a, m) == MulFrom(a, m, 1, 0)[DigitCount + 1] > 0
Mul(a, m) == SubSeq(MulFrom(a, m, 1, 0), 1, DigitCount)

\* a / d for a divisor d below DigitBase, from the most significant digit.
RECURSIVE DivFrom(_, _, _, _)
DivFrom(a, d, i, rest) ==
    IF i = 0 THEN <<>>
    ELSE LET t == rest * DigitBase + a[i]
         IN  DivFrom(a, d, i - 1, t % d) \o <<t \div d>>
Div(a, d) == DivFrom(a, d, DigitCount, 0)

\* a + b, digit by digit; the last element is the carry that leaves.
RECURSIVE AddFrom(_, _, _, _)
AddFrom(a, b, i, carry) ==
    IF i > DigitCount THEN <<carry>>
    ELSE LET t == a[i] + b[i] + carry
         IN  <<t % DigitBase>> \o AddFrom(a, b, i + 1, t \div DigitBase)
AddOverflows(a, b) == AddFrom(a, b, 1, 0)[DigitCount + 1] > 0
Add(a, b) == SubSeq(AddFrom(a, b, 1, 0), 1, DigitCount)

\* a <= b
Leq(a, b) ==
    \/ a = b
    \/ \E i \in Digits : a[i] < b[i] /\ \A j \in (i + 1)..DigitCount : a[j] = b[j]

OrderIds == {1}
\* The amounts of the orders: an everyday one and the largest of the uint256
\* range.
SmallAmount == Uint256(100)
LargeAmount == MaxUint256
Amounts == {SmallAmount, LargeAmount}
Nonces == {1, 2}
OrderDatas == [order : OrderIds, amount : Amounts]
FirstOrderData == [order |-> 1, amount |-> SmallAmount]

AmountIndex(amount) == IF amount = SmallAmount THEN 0 ELSE 1
SenderIndex(sender) == IF sender = "owner" THEN 0 ELSE 1

\* A byte string is a sequence of numbers of 0..255.
\* The 32 bytes of a uint256, most significant first (the model's nonces
\* and order ids are below 2^24: the bytes before the last three are 0).
EncodeUint256(value) ==
    [i \in 1..32 |-> IF i = 32 THEN value % 256
                     ELSE IF i = 31 THEN (value \div 256) % 256
                     ELSE IF i = 30 THEN (value \div 65536) % 256
                     ELSE 0]

\* The 32 bytes of an amount, from its 16-bit digits.
AmountBytes(amount) ==
    [i \in 1..32 |->
        LET digit == amount[DigitCount - ((i - 1) \div 2)] IN
        IF i % 2 = 1 THEN digit \div 256 ELSE digit % 256]

\* The 20 bytes of an address.
AddressBytes(account) ==
    [i \in 1..20 |-> IF i = 20 THEN SenderIndex(account) + 1 ELSE 160 + i]

\* orderData: the ABI encoding of the order payload, a byte string.
OrderDataBytes(orderData) ==
    EncodeUint256(orderData.order) \o AmountBytes(orderData.amount)

\* keccak256 of a byte string: every byte counts, with a weight of its
\* position; the byte strings of the model do not collide.
KeccakWeight(i) ==
    (i * ((i * 7919) % 1000003) + i * 104729 + 13) % 1000003

RECURSIVE KeccakOver(_, _, _)
KeccakOver(bytes, first, last) ==
    IF first > last THEN 0
    ELSE IF first = last THEN ((bytes[first] + 1) * KeccakWeight(first)) % 1000003
    ELSE (KeccakOver(bytes, first, (first + last) \div 2)
          + KeccakOver(bytes, (first + last) \div 2 + 1, last)) % 1000003

keccak256(bytes) == 1 + KeccakOver(bytes, 1, Len(bytes))

\* abi.encodePacked(bytes orderData, uint256 nonce, address committer)
encodePacked(orderDataBytes, nonce, committer) ==
    orderDataBytes \o EncodeUint256(nonce) \o AddressBytes(committer)

\* The preimages of the commit hashes of the model.
ClientNonces == {1, 256}
CommitPreimages == OrderDatas \X (Nonces \cup ClientNonces) \X Senders

\* A commit hash that leaves the nonce out.
CommitHashesNoNonce ==
    {<<c, keccak256(OrderDataBytes(c[1]) \o AddressBytes(c[3]))>> :
        c \in CommitPreimages}

generateCommitHashNoNonce(orderData, nonce, committer) ==
    (CHOOSE p \in CommitHashesNoNonce : p[1] = <<orderData, nonce, committer>>)[2]

\* keccak256(abi.encodePacked(orderData, nonce, committer)) of every
\* preimage of the model, each with its hash.
CommitHashOf ==
    {<<c, keccak256(encodePacked(OrderDataBytes(c[1]), c[2], c[3]))>> :
        c \in CommitPreimages}

generateCommitHash(orderData, nonce, committer) ==
    (CHOOSE p \in CommitHashOf : p[1] = <<orderData, nonce, committer>>)[2]

(***************************************************************************)
(* The order payload of PrivacyClient, word by word                        *)
(***************************************************************************)
\* 32 bytes read as a uint256, the most significant byte first.
WordOfBytes(bytes) ==
    [i \in Digits |-> bytes[2 * (DigitCount - i) + 1] * 256
                      + bytes[2 * (DigitCount - i) + 2]]

\* An address as an ABI word: its 20 bytes after 12 zero bytes;
\* ethers.ZeroAddress is "0x0".
AddressWord(account) ==
    IF account = "0x0" THEN Uint256(0)
    ELSE WordOfBytes([i \in 1..32 |->
                         IF i <= 12 THEN 0 ELSE AddressBytes(account)[i - 12]])

\* The bytes of a sequence of words.
WordsBytes(words) ==
    [i \in 1..(32 * Len(words)) |->
        AmountBytes(words[((i - 1) \div 32) + 1])[((i - 1) % 32) + 1]]

\* The ABI encoding of a `bytes` value: its length, then its bytes padded
\* with zeros to whole words.
EncodeBytes(bytes) ==
    <<Uint256(Len(bytes))>>
    \o [k \in 1..((Len(bytes) + 31) \div 32) |->
           WordOfBytes([i \in 1..32 |->
               IF 32 * (k - 1) + i <= Len(bytes) THEN bytes[32 * (k - 1) + i]
               ELSE 0])]

\* The token addresses of runCompletePrivacyFlow: the 160 bits that its two
\* literals name, 0xA0b8...e476 and 0xFF97...5CC8.
SrcToken ==
    LET digits == <<58486, 180, 20673, 3854, 24736, 36638, 58344, 50225,
                    27025, 41144>>
    IN  [i \in Digits |-> IF i <= 10 THEN digits[i] ELSE 0]
DstToken ==
    LET digits == <<23752, 48603, 21310, 24036, 42047, 18484, 7329, 41035,
                    2657, 65431>>
    IN  [i \in Digits |-> IF i <= 10 THEN digits[i] ELSE 0]

\* An address argument is a text: the forty hex digits after "0x" as they
\* are written, and the 160 bits they name.  FlowMakerAsset and
\* FlowTakerAsset are the literals of runCompletePrivacyFlow; the same
\* maker asset is also written in its EIP-55 form, in upper case and in
\* lower case.
FlowMakerAsset ==
    [text |->
     <<"A", "0", "b", "8", "6", "9", "9", "1", "c", "4",
      "3", "1", "e", "3", "e", "8", "8", "F", "1", "e",
      "6", "0", "A", "0", "0", "f", "0", "E", "5", "0",
      "c", "1", "0", "0", "b", "4", "e", "4", "7", "6">>,
     address |-> SrcToken]
ChecksumMakerAsset ==
    [text |->
     <<"a", "0", "b", "8", "6", "9", "9", "1", "c", "4",
      "3", "1", "E", "3", "E", "8", "8", "f", "1", "E",
      "6", "0", "A", "0", "0", "f", "0", "e", "5", "0",
      "C", "1", "0", "0", "B", "4", "e", "4", "7", "6">>,
     address |-> SrcToken]
UpperCaseMakerAsset ==
    [text |->
     <<"A", "0", "B", "8", "6", "9", "9", "1", "C", "4",
      "3", "1", "E", "3", "E", "8", "8", "F", "1", "E",
      "6", "0", "A", "0", "0", "F", "0", "E", "5", "0",
      "C", "1", "0", "0", "B", "4", "E", "4", "7", "6">>,
     address |-> SrcToken]
LowerCaseMakerAsset ==
    [text |->
     <<"a", "0", "b", "8", "6", "9", "9", "1", "c", "4",
      "3", "1", "e", "3", "e", "8", "8", "f", "1", "e",
      "6", "0", "a", "0", "0", "f", "0", "e", "5", "0",
      "c", "1", "0", "0", "b", "4", "e", "4", "7", "6">>,
     address |-> SrcToken]
FlowTakerAsset ==
    [text |->
     <<"F", "F", "9", "7", "0", "A", "6", "1", "A", "0",
      "4", "b", "1", "c", "A", "1", "4", "8", "3", "4",
      "A", "4", "3", "f", "5", "d", "E", "4", "5", "3",
      "3", "e", "B", "D", "D", "B", "5", "C", "C", "8">>,
     address |-> DstToken]
MakerAssets ==
    {FlowMakerAsset, ChecksumMakerAsset, UpperCaseMakerAsset, LowerCaseMakerAsset}

\* EIP-55: the hex digits of the address, a letter in upper case where the
\* digit of Keccak-256 of the lower-case text at its place is 8 or more.
getChecksumAddress(address) ==
    IF address = SrcToken THEN ChecksumMakerAsset.text ELSE FlowTakerAsset.text

\* /([A-F].*[a-f])|([a-f].*[A-F])/: the text has an upper-case and a
\* lower-case hex letter.
MixedCase(text) ==
    /\ \E i \in DOMAIN text : text[i] \in {"A", "B", "C", "D", "E", "F"}
    /\ \E i \in DOMAIN text : text[i] \in {"a", "b", "c", "d", "e", "f"}

\* What the coder of an "address" value (ethers getAddress) rejects with
\* "bad address checksum": a text of mixed case that is not the EIP-55
\* form.  A text of one case is taken whatever its checksum.
BadAddressChecksum(asset) ==
    MixedCase(asset.text) /\ asset.text # getChecksumAddress(asset.address)

\* The address the coder encodes and getAddress returns: the same 160 bits
\* in their EIP-55 form.
Checksummed(asset) ==
    [text |-> getChecksumAddress(asset.address), address |-> asset.address]

\* The values createPrivateOrder and createEscrowImmutables fill in.
ClientSalt == Uint256(999999)
ClientSafetyDeposit ==
    [i \in Digits |-> IF i = 1 THEN 32768 ELSE IF i = 2 THEN 42182
                      ELSE IF i = 3 THEN 36222 ELSE IF i = 4 THEN 3 ELSE 0]
ClientTimelocks == Uint256(3600)
AllowedSenders == {"0x0", "stranger"}

\* createPrivateOrder: the PrivateOrder of a signer for an amount.
PrivateOrder(signer, makingAmount, makerAsset, allowedSender) ==
    [maker |-> signer, makingAmount |-> makingAmount,
     takingAmount |-> Mul(Div(makingAmount, 100), 99),
     makerAsset |-> makerAsset, takerAsset |-> FlowTakerAsset, salt |-> ClientSalt,
     receiver |-> "0x0", allowedSender |-> allowedSender,
     interactions |-> <<>>, makerTraits |-> Uint256(0)]
\* The orders whose addresses the coder accepts.
PrivateOrders ==
    {PrivateOrder(signer, amount, ChecksumMakerAsset, allowedSender) :
        signer \in Senders, amount \in Amounts, allowedSender \in AllowedSenders}
\* The orders a client is asked to commit to: each spelling of the maker
\* asset.
ClientOrders ==
    {PrivateOrder(signer, amount, makerAsset, allowedSender) :
        signer \in Senders, amount \in Amounts, makerAsset \in MakerAssets,
        allowedSender \in AllowedSenders}
\* The order as the coder encodes it: the addresses, whatever their spelling.
EncodedOrder(privateOrder) ==
    [privateOrder EXCEPT !.makerAsset = Checksummed(privateOrder.makerAsset),
                         !.takerAsset = Checksummed(privateOrder.takerAsset)]

\* signer.signMessage: the 65 bytes of the signer's signature.
signMessage(privateOrder) ==
    [i \in 1..65 |->
        (17 * i + SenderIndex(privateOrder.maker)
         + AmountIndex(privateOrder.makingAmount)) % 256]

\* signOrder: AbiCoder.encode of (maker, makingAmount, takingAmount,
\* makerAsset, takerAsset, salt) throws on an address text it rejects, and
\* nothing is signed; else the signature of the hash of the encoding.
signOrder(privateOrder) ==
    IF BadAddressChecksum(privateOrder.makerAsset)
           \/ BadAddressChecksum(privateOrder.takerAsset)
    THEN [threw |-> TRUE, signature |-> <<>>]
    ELSE [threw |-> FALSE, signature |-> signMessage(privateOrder)]

\* createEscrowImmutables: orderHash, hashlock, maker, taker, token, amount,
\* safetyDeposit, timelocks.
createEscrowImmutables(privateOrder) ==
    <<Uint256(keccak256(WordsBytes(<<AddressWord(privateOrder.maker),
                                     privateOrder.makingAmount,
                                     privateOrder.makerAsset.address>>))),
      Uint256(keccak256(<<7>>)),
      AddressWord(privateOrder.maker), AddressWord(privateOrder.maker),
      privateOrder.makerAsset.address,
      privateOrder.makingAmount, ClientSafetyDeposit, ClientTimelocks>>

\* The words of the Order tuple as generateCommitment lists its fields: ten
\* head words (the ninth is the offset of `interactions`), then the bytes.
ClientOrderWords(privateOrder) ==
    <<AddressWord(privateOrder.maker), privateOrder.makingAmount, privateOrder.takingAmount,
      privateOrder.makerAsset.address, privateOrder.takerAsset.address, privateOrder.salt,
      AddressWord(privateOrder.receiver), AddressWord(privateOrder.allowedSender),
      Uint256(10 * 32), privateOrder.makerTraits>>
    \o EncodeBytes(privateOrder.interactions)

\* AbiCoder.encode of generateCommitment: (Order, bytes signature, uint256
\* amount, uint256 takerTraits, bytes args, Immutables).  The head has 13
\* words: the offsets of the three dynamic values, the two numbers and the
\* eight words of the immutables; the tails follow in order.
ClientOrderDataWords(privateOrder, signature, amount, takerTraits, args, immutables) ==
    LET orderWords == ClientOrderWords(privateOrder)
        signatureWords == EncodeBytes(signature)
        orderOffset == 13 * 32
        signatureOffset == orderOffset + 32 * Len(orderWords)
        argsOffset == signatureOffset + 32 * Len(signatureWords)
    IN  <<Uint256(orderOffset), Uint256(signatureOffset), amount, takerTraits,
          Uint256(argsOffset)>>
        \o immutables \o orderWords \o signatureWords \o EncodeBytes(args)

\* The layout abi.decode of revealAndScheduleOrder reads: (Immutables,
\* Order, bytes32 r, bytes32 vs, uint256 amount, TakerTraits, bytes args),
\* the immutables and the order as eight static words each.
ContractOrderDataWords(immutables, orderWords, r, vs, amount, takerTraits, args) ==
    immutables \o orderWords
    \o <<r, vs, amount, takerTraits, Uint256(21 * 32)>> \o EncodeBytes(args)

\* orderData of generateCommitment for an order with the amount of
\* runCompletePrivacyFlow (order.makingAmount), no takerTraits and no args.
ClientOrderData(privateOrder) ==
    WordsBytes(ClientOrderDataWords(privateOrder, signOrder(privateOrder).signature,
                                    privateOrder.makingAmount,
                                    Uint256(0), <<>>,
                                    createEscrowImmutables(privateOrder)))

\* calldataload: the word at a byte offset.
calldataload(bytes, offset) ==
    WordOfBytes([i \in 1..32 |-> bytes[offset + i]])

\* A word that can be an offset or a length inside a payload (below 2^31).
FitsPayload(word) ==
    /\ \A i \in 3..DigitCount : word[i] = 0
    /\ word[2] < DigitBase \div 2
WordValue(word) == word[1] + DigitBase * word[2]

DecodeReverted ==
    [ok |-> FALSE, immutables |-> <<>>, order |-> <<>>, r |-> Uint256(0),
     vs |-> Uint256(0), amount |-> Uint256(0), takerTraits |-> Uint256(0),
     args |-> <<>>]

\* abi.decode(orderData, (Immutables, Order, bytes32, bytes32, uint256,
\* TakerTraits, bytes)): 21 head words, the last the offset of args; it
\* reverts when the head, the length word or the bytes of args do not lie
\* inside orderData.
abi_decode(bytes) ==
    IF Len(bytes) < 21 * 32 THEN DecodeReverted
    ELSE LET argsOffset == calldataload(bytes, 20 * 32) IN
         IF ~FitsPayload(argsOffset) THEN DecodeReverted
         ELSE IF WordValue(argsOffset) + 32 > Len(bytes) THEN DecodeReverted
         ELSE LET argsLength == calldataload(bytes, WordValue(argsOffset)) IN
              IF ~FitsPayload(argsLength) THEN DecodeReverted
              ELSE IF WordValue(argsOffset) + 32 + WordValue(argsLength)
                          > Len(bytes)
                   THEN DecodeReverted
              ELSE [ok |-> TRUE,
                    immutables |-> [k \in 1..8 |-> calldataload(bytes, 32 * (k - 1))],
                    order |-> [k \in 1..8 |-> calldataload(bytes, 32 * (k + 7))],
                    r |-> calldataload(bytes, 16 * 32),
                    vs |-> calldataload(bytes, 17 * 32),
                    amount |-> calldataload(bytes, 18 * 32),
                    takerTraits |-> calldataload(bytes, 19 * 32),
                    args |-> SubSeq(bytes, WordValue(argsOffset) + 33,
                                    WordValue(argsOffset) + 32
                                        + WordValue(argsLength))]

\* keccak256(abi.encode(order, r, vs)) of a decoded payload.
DecodedOrderHash(decoded) ==
    keccak256(WordsBytes(decoded.order \o <<decoded.r, decoded.vs>>))

\* Every payload a PrivacyClient of the model builds, with what the
\* contract makes of it: the payload's bytes, whether abi.decode accepts
\* them, the decoded amount and the key of the DelayedOrder.
ClientPayloads ==
    {LET bytes == ClientOrderData(privateOrder)
         decoded == abi_decode(bytes)
     IN  [order |-> privateOrder, bytes |-> bytes, decodes |-> decoded.ok,
          amount |-> decoded.amount,
          orderHash |-> IF decoded.ok THEN DecodedOrderHash(decoded) ELSE 0,
          keccak |-> keccak256(bytes)] : privateOrder \in PrivateOrders}
ClientPayload(privateOrder) ==
    CHOOSE p \in ClientPayloads : p.order = EncodedOrder(privateOrder)

\* keccak256(abi.encode(order, r, vs))
OrderHash(orderData) == 100 + orderData.order
OrderHashes == {OrderHash(od) : od \in OrderDatas}

\* keccak256(abi.encodePacked(block.timestamp, i, msg.sender, "fake")): a
\* hash of its own for every (timestamp, i, sender).  Modulo
\* MAX_COMMIT_DELAY - MIN_COMMIT_DELAY the hash of i = 0 leaves 0 and the
\* hash of i = 1 leaves the largest remainder.
FakeCommit(timestamp, i, sender) ==
    (MAX_COMMIT_DELAY - MIN_COMMIT_DELAY)
        * (4 * timestamp + 2 * i + SenderIndex(sender) + 1)
    + i * (MAX_COMMIT_DELAY - MIN_COMMIT_DELAY - 1)
\* createFakeCommitments(count): the counts the model sends.
FakeCounts == {0, 2}
FakeHashes ==
    {FakeCommit(t, i, "owner") : t \in BlockTimes, i \in 0..1}

\* What the owner commits to off-chain: each order payload with the first
\* nonce and the owner's own address; commitOrder is sent with their hashes.
Committed == {<<od, 1, "owner">> : od \in OrderDatas}
CommitHashes == {generateCommitHash(c[1], c[2], c[3]) : c \in Committed}
\* PrivacyResolver storage after construction: every commitments[h] is the
\* zero struct.
\* keccak256(abi.encodePacked(orderData, nonce, msg.sender)) as
\* revealAndScheduleOrder computes it for the payload of a PrivacyClient
\* whose signer made the order, each preimage with its hash.
ClientCommitHashOf ==
    {<<<<p.order, nonce>>,
       keccak256(encodePacked(p.bytes, nonce, p.order.maker))>> :
        p \in ClientPayloads, nonce \in ClientNonces}
RevealedCommitHash(privateOrder, nonce) ==
    (CHOOSE c \in ClientCommitHashOf :
        c[1] = <<EncodedOrder(privateOrder), nonce>>)[2]
\* Storage is written by the owner's transactions only.  The commit
\* hashes of the payloads of a client that signs as the owner:
ClientHashes ==
    {c[2] : c \in {d \in ClientCommitHashOf : d[1][1].maker = "owner"}}
\* The keys of commitments the resolver's callers use, and with the
\* client's.
CommitKeys == CommitHashes \cup FakeHashes
ClientCommitKeys == CommitKeys \cup ClientHashes
\* The keys of delayedOrders the model reads or writes: the orderHash of
\* every order, and for every payload the owner's client can reveal the
\* key its reveal stores and the orderHash the client computes.
ClientOrderHashes ==
    {p.orderHash : p \in {q \in ClientPayloads :
                              q.decodes /\ q.order.maker = "owner"}}
    \cup {p.keccak : p \in {q \in ClientPayloads :
                                q.decodes /\ q.order.maker = "owner"}}
OrderKeys == OrderHashes
ClientOrderKeys == OrderKeys \cup ClientOrderHashes
NoCommitment ==
    [commitHash |-> 0, revealAfter |-> 0, expireAfter |-> 0, committer |-> "0x0",
     revealed |-> FALSE, executed |-> FALSE]
NoDelayedOrder == [order |-> 0, amount |-> Uint256(0), executeAfter |-> 0]

\* No call of deploySrc.
NoForward ==
    [immutables |-> [order |-> 0, deployedAt |-> 0], order |-> 0,
     amount |-> Uint256(0)]

\* lastTx when the last step was no transaction.  The deploySrc field holds
\* the arguments of the call of this.deploySrc a transaction made.
NoTx == [op |-> "-", sender |-> "-", commitHash |-> 0, revealDelay |-> 0,
         orderHash |-> 0, result |-> "-", deploySrc |-> NoForward]

NoHistoryOver(commitKeys, orderKeys) ==
    [txs |-> 0,
     committedAt |-> [h \in commitKeys |-> -1],
     reveals |-> [h \in commitKeys |-> 0],
     revealedAt |-> [h \in orderKeys |-> -1],
     executions |-> [h \in orderKeys |-> 0]]
NoHistory == NoHistoryOver(CommitKeys, OrderKeys)

\* PrivacyResolver after construction; the mappings are followed on the
\* keys given.
PrivacyIdleOver(commitKeys, orderKeys) ==
    /\ blockTime = 0
    /\ commitments = [h \in commitKeys |-> NoCommitment]
    /\ delayedOrders = [h \in orderKeys |-> NoDelayedOrder]
    /\ fakeVolumes = Uint256(0)
    /\ lastTx = NoTx
    /\ ghost = NoHistoryOver(commitKeys, orderKeys)
PrivacyIdle == PrivacyIdleOver(CommitKeys, OrderKeys)

\* No multiple-fill hashlock has been built.
NoMerkle ==
    [stage |-> "idle", secrets |-> <<>>, root |-> <<>>, idx |-> 0,
     secretHash |-> 0, proof |-> <<>>, changed |-> "nothing",
     verified |-> FALSE]

MerkleIdle == merkle = NoMerkle

\* No source deployment event has been read.
NoEvent ==
    [observed |-> FALSE,
     immutables |-> [hashlock |-> 0, amount |-> 0, safetyDeposit |-> 0,
                     taker |-> "-"],
     complement |-> [amount |-> 0, safetyDeposit |-> 0]]

\* The coordinator has not started a swap.
NoCoordinator ==
    [test |-> "-", step |-> 0, status |-> "idle", srcEscrowEvent |-> NoEvent]

CoordinatorIdle == coordinator = NoCoordinator

\* The client holds no commitment: no order has been created and no maker
\* named.
NoClient ==
    [stage |-> "idle", signer |-> "-",
     order |-> [maker |-> "-"], orderData |-> <<>>,
     nonce |-> 0, commitHash |-> 0]

ClientIdle == client = NoClient

\* PrivacyUtils after construction: empty mappings, no call yet.
\* The uint256 fields of a call that took or returned none are empty.
NoUtilsCall ==
    [op |-> "-", sender |-> "-", result |-> "-", at |-> 0, id |-> 0,
     input |-> <<>>, value |-> <<>>, noise |-> <<>>,
     ready |-> FALSE, operations |-> <<>>, indices |-> <<>>, events |-> <<>>]
NoUtils ==
    [time |-> 0, ticks |-> 0, txs |-> 0, delayedActions |-> {},
     tokenObfuscation |-> <<>>, last |-> NoUtilsCall]
UtilsIdle == utils = NoUtils

\* No escrow factory is deployed on either chain.
NoFactory ==
    [deployed |-> FALSE, rescueDelaySrc |-> 0, rescueDelayDst |-> 0,
     srcRescueDelay |-> 0, dstRescueDelay |-> 0]
FactoryIdle == factory = [s \in Sides |-> NoFactory]

\* A JavaScript value: a number or a string.
JsNumber(n) == [type |-> "number", number |-> n, string |-> ""]
JsString(str) == [type |-> "string", number |-> 0, string |-> str]
\* No predicate of the SDK has been called.
NoSdk ==
    [chain |-> JsNumber(1), called |-> {}, supportedChain |-> FALSE,
     supportedNetwork |-> FALSE, mainnet |-> FALSE, entries |-> {}]
SdkIdle == sdk = NoSdk

\* The swap is run without PrivacyResolver: no key of its mappings is
\* followed.
Init ==
    /\ SwapInit /\ PrivacyIdleOver({}, {})
    /\ MerkleIdle /\ CoordinatorIdle /\ ClientIdle
    /\ UtilsIdle
    /\ FactoryIdle
    /\ SdkIdle

(***************************************************************************)
(* Resolver coordinator and escrow operations                              *)
(***************************************************************************)
\* deploySrc: the order fill on the source chain.  A single-fill order is
\* filled whole; a multiple-fill order by any part of it.  The resolver that
\* fills the order is the taker of the source escrow.
deploySrcWith(fillAmount, hashLock) ==
    /\ escrow["src"].status = "None"
    /\ IF order.allowMultipleFills
       THEN fillAmount \in 1..order.makingAmount
       ELSE fillAmount = order.makingAmount
    /\ escrow' = [escrow EXCEPT !["src"] =
            [status |-> "Active", deployedAt |-> now["src"], amount |-> fillAmount,
             safetyDeposit |-> SrcSafetyDeposit,
             hashlock |-> hashLock, taker |-> Taker, resolvedAt |-> 0,
             resolvedBy |-> "-", secret |-> 0]]
    /\ token' = [token EXCEPT !["src"]["maker"] = @ - fillAmount]
    /\ native' = [native EXCEPT !["src"]["resolver"] = @ - SrcSafetyDeposit]
    /\ lastCall' = "ok"
    /\ UNCHANGED <<order, now, secretShared, secretPublic, pending>>

\* deploySrc of an order with the hashlock of its one secret.
deploySrc(fillAmount) == deploySrcWith(fillAmount, HashSecret(order.secret))

\* The deployment event of the source escrow: the Immutables of the escrow
\* and the complement of the destination chain.
SrcEscrowEvent ==
    [observed |-> TRUE,
     immutables |-> [hashlock |-> escrow["src"].hashlock,
                     amount |-> escrow["src"].amount,
                     safetyDeposit |-> escrow["src"].safetyDeposit,
                     taker |-> escrow["src"].taker],
     complement |-> [amount |-> DstAmount(escrow["src"].amount),
                     safetyDeposit |-> DstSafetyDeposit]]

\* Destination Immutables that keep the amount of the source escrow.
dstImmutablesNoComplement(event) ==
    [hashlock |-> event.immutables.hashlock,
     amount |-> event.immutables.amount,
     safetyDeposit |-> event.complement.safetyDeposit,
     taker |-> "resolver"]

\* srcEscrowEvent[0].withComplement(srcEscrowEvent[1]).withTaker(resolver)
dstImmutables(event) ==
    [hashlock |-> event.immutables.hashlock,
     amount |-> event.complement.amount,
     safetyDeposit |-> event.complement.safetyDeposit,
     taker |-> "resolver"]

\* deployDst(dstImmutables), sent by the resolver: the destination escrow
\* holds the Immutables it is called with, paid from the resolver's funds;
\* deployedAt is the destination block timestamp at inclusion.
deployDstWith(immutables) ==
    /\ escrow["dst"].status = "None"
    /\ token["dst"]["resolver"] >= immutables.amount
    /\ native["dst"]["resolver"] >= immutables.safetyDeposit
    /\ escrow' = [escrow EXCEPT !["dst"] =
            [status |-> "Active", deployedAt |-> now["dst"],
             amount |-> immutables.amount,
             safetyDeposit |-> immutables.safetyDeposit,
             hashlock |-> immutables.hashlock, taker |-> immutables.taker,
             resolvedAt |-> 0, resolvedBy |-> "-", secret |-> 0]]
    /\ token' = [token EXCEPT !["dst"]["resolver"] = @ - immutables.amount]
    /\ native' = [native EXCEPT !["dst"]["resolver"] = @ - immutables.safetyDeposit]
    /\ lastCall' = "ok"
    /\ UNCHANGED <<order, now, secretShared, secretPublic, pending>>

\* deployDst of a resolver that has read the deployment event of the source
\* escrow and derived the destination Immutables from it.
deployDst ==
    /\ escrow["src"].status # "None"
    /\ deployDstWith(dstImmutables(SrcEscrowEvent))

\* The maker shares the secret after validating the destination deployment.
ShareSecret ==
    /\ escrow["dst"].status # "None"
    /\ ~secretShared
    /\ secretShared' = TRUE
    /\ lastCall' = NoCall
    /\ UNCHANGED <<order, now, escrow, token, native, secretPublic, pending>>

WithdrawTargetTaker(side) == Taker
CancelTargetTaker(side) == Taker

\* Who receives the escrowed amount on withdrawal: the counterparty.
WithdrawTarget(side) == IF side = "src" THEN Taker ELSE "maker"
\* Who gets the escrowed amount back on cancellation: its depositor.
CancelTarget(side) == IF side = "src" THEN "maker" ELSE Taker

WithdrawOutcomeAnyCaller(side, caller, secret) ==
    LET e == escrow[side] tl == order.timeLocks IN
    IF e.status # "Active" THEN "NotActive"
    ELSE IF ~ ( \/ canWithdraw(tl, side, e.deployedAt, now[side])
                \/ canPublicWithdraw(tl, side, e.deployedAt, now[side]) )
         THEN "InvalidTime"
    ELSE IF HashSecret(secret) # e.hashlock THEN "InvalidSecret"
    ELSE "ok"

WithdrawOutcomeNoSecretCheck(side, caller, secret) ==
    LET e == escrow[side] tl == order.timeLocks IN
    IF e.status # "Active" THEN "NotActive"
    ELSE IF ~ ( \/ caller = e.taker /\ canWithdraw(tl, side, e.deployedAt, now[side])
                \/ canPublicWithdraw(tl, side, e.deployedAt, now[side]) )
         THEN IF canWithdraw(tl, side, e.deployedAt, now[side])
              THEN "InvalidCaller" ELSE "InvalidTime"
    ELSE "ok"

WithdrawOutcomeNoFlag(side, caller, secret) ==
    LET e == escrow[side] tl == order.timeLocks IN
    IF e.status = "None" THEN "NotActive"
    ELSE IF ~ ( \/ caller = e.taker /\ canWithdraw(tl, side, e.deployedAt, now[side])
                \/ canPublicWithdraw(tl, side, e.deployedAt, now[side]) )
         THEN IF canWithdraw(tl, side, e.deployedAt, now[side])
              THEN "InvalidCaller" ELSE "InvalidTime"
    ELSE IF HashSecret(secret) # e.hashlock THEN "InvalidSecret"
    ELSE "ok"

\* The outcome of withdraw(side, escrow, secret, immutables) sent by caller:
\* the escrow is still Active, then the taker in the private window or
\* anybody once canPublicWithdraw holds, then the secret.
WithdrawOutcome(side, caller, secret) ==
    LET e == escrow[side] tl == order.timeLocks IN
    IF e.status # "Active" THEN "NotActive"
    ELSE IF ~ ( \/ caller = e.taker /\ canWithdraw(tl, side, e.deployedAt, now[side])
                \/ canPublicWithdraw(tl, side, e.deployedAt, now[side]) )
         THEN IF canWithdraw(tl, side, e.deployedAt, now[side])
              THEN "InvalidCaller" ELSE "InvalidTime"
    ELSE IF HashSecret(secret) # e.hashlock THEN "InvalidSecret"
    ELSE "ok"

\* The outcome of cancel(side, escrow, immutables) sent by caller: the
\* escrow is still Active, then the taker while canCancel holds or anybody
\* once canPublicCancel holds.
CancelOutcome(side, caller) ==
    LET e == escrow[side] tl == order.timeLocks IN
    IF e.status # "Active" THEN "NotActive"
    ELSE IF ~ ( \/ caller = e.taker /\ canCancel(tl, side, e.deployedAt, now[side])
                \/ canPublicCancel(tl, side, e.deployedAt, now[side]) )
         THEN IF canCancel(tl, side, e.deployedAt, now[side])
              THEN "InvalidCaller" ELSE "InvalidTime"
    ELSE "ok"

\* withdraw: amount to the counterparty, safety deposit to the caller.
Withdrawn(side, caller, secret) ==
    /\ LET outcome == WithdrawOutcome(side, caller, secret) IN
       /\ lastCall' = outcome
       /\ IF outcome = "ok"
          THEN /\ escrow' = [escrow EXCEPT ![side].status = "Withdrawn",
                                           ![side].resolvedAt = now[side],
                                           ![side].resolvedBy = caller,
                                           ![side].secret = secret]
               /\ token' = [token EXCEPT ![side][WithdrawTarget(side)] =
                                @ + escrow[side].amount]
               /\ native' = [native EXCEPT ![side][caller] =
                                @ + escrow[side].safetyDeposit]
               /\ secretPublic' = TRUE
          ELSE UNCHANGED <<escrow, token, native, secretPublic>>
    /\ UNCHANGED <<order, now, secretShared, pending>>

\* withdraw of a caller who presents the order's secret only if it knows it.
withdraw(side, caller, secret) ==
    /\ secret = order.secret => KnowsSecret(caller)
    /\ Withdrawn(side, caller, secret)

\* cancel: amount and safety deposit back to their depositors.
cancel(side, caller) ==
    /\ LET outcome == CancelOutcome(side, caller) IN
       /\ lastCall' = outcome
       /\ IF outcome = "ok"
          THEN /\ escrow' = [escrow EXCEPT ![side].status = "Cancelled",
                                           ![side].resolvedAt = now[side],
                                           ![side].resolvedBy = caller]
               /\ token' = [token EXCEPT ![side][CancelTarget(side)] =
                                @ + escrow[side].amount]
               /\ native' = [native EXCEPT ![side][Taker] =
                                @ + escrow[side].safetyDeposit]
          ELSE UNCHANGED <<escrow, token, native>>
    /\ UNCHANGED <<order, now, secretShared, secretPublic, pending>>

\* A block is mined on one chain, one second after the chain's latest block:
\* each chain is a node of its own and reads its own block.timestamp, so
\* wall-clock time between two transactions shows on one chain at a time.  An
\* escrow is deployed within MaxDeployDelay of the start of its chain's clock.
MineBlock(side) ==
    /\ now[side] + pending[side] < MaxTime
    /\ escrow[side].status # "None" \/ now[side] + pending[side] < MaxDeployDelay
    /\ now' = [now EXCEPT ![side] = @ + 1]
    /\ lastCall' = NoCall
    /\ UNCHANGED <<order, escrow, token, native, secretShared, secretPublic, pending>>

\* The waits of the tests: increaseTime(11) passes the finality lock,
\* increaseTime(125) every timelock.
FillWait == 1
CancelWait == 4
Waits == {FillWait, CancelWait}

\* The helper of the tests: one evm_increaseTime request with the same t is
\* sent to the node of the source chain and one to the node of the
\* destination chain; the helper returns when both were answered.
increaseTime(t) ==
    /\ pending = NoRequests
    /\ \A side \in Sides : now[side] + t <= MaxTime
    /\ pending' = [side \in Sides |-> t]
    /\ lastCall' = NoCall
    /\ UNCHANGED <<order, now, escrow, token, native, secretShared, secretPublic>>

\* The node of one chain serves its evm_increaseTime request: the chain's
\* clock moves on by the seconds asked, whatever the other chain has done.
evm_increaseTime(side) ==
    /\ pending[side] > 0
    /\ now' = [now EXCEPT ![side] = @ + pending[side]]
    /\ pending' = [pending EXCEPT ![side] = 0]
    /\ lastCall' = NoCall
    /\ UNCHANGED <<order, escrow, token, native, secretShared, secretPublic>>

\* The waits that leave the escrows still to be deployed within MaxDeployDelay.
DeployableAfter(t) ==
    \A side \in Sides :
        escrow[side].status # "None" \/ now[side] + t <= MaxDeployDelay

Next ==
    \/ \E fillAmount \in 1..MaxAmount :
          deploySrc(fillAmount) /\ UNCHANGED <<privacyVars, offChainVars>>
    \/ deployDst /\ UNCHANGED <<privacyVars, offChainVars>>
    \/ ShareSecret /\ UNCHANGED <<privacyVars, offChainVars>>
    \/ \E side \in Sides, caller \in Parties, secret \in Secrets :
          withdraw(side, caller, secret) /\ UNCHANGED <<privacyVars, offChainVars>>
    \/ \E side \in Sides, caller \in Parties :
          cancel(side, caller) /\ UNCHANGED <<privacyVars, offChainVars>>
    \/ \E side \in Sides : MineBlock(side) /\ UNCHANGED <<privacyVars, offChainVars>>
    \/ \E t \in Waits :
          increaseTime(t) /\ DeployableAfter(t)
          /\ UNCHANGED <<privacyVars, offChainVars>>
    \/ \E side \in Sides :
          evm_increaseTime(side) /\ UNCHANGED <<privacyVars, offChainVars>>

Spec == Init /\ [][Next]_vars

(***************************************************************************)
(* Properties of the swap                                                  *)
(***************************************************************************)
Elapsed(side) == now[side] - escrow[side].deployedAt
ResolvedElapsed(side) == escrow[side].resolvedAt - escrow[side].deployedAt
TokenSum(side) == token[side]["maker"] + token[side]["resolver"] + token[side]["other"]
NativeSum(side) == native[side]["maker"] + native[side]["resolver"] + native[side]["other"]
TokenSupply(side) == IF side = "src" THEN MakerSrcFunds ELSE ResolverDstFunds
FailedCalls == {"NotActive", "InvalidTime", "InvalidCaller", "InvalidSecret"}

MakerHoldsBoth ==
    /\ escrow["dst"].status = "Withdrawn"
    /\ escrow["src"].status = "Cancelled"
    /\ token["src"]["maker"] = MakerSrcFunds
    /\ token["dst"]["maker"] = escrow["dst"].amount

\* C3: an escrow that is Withdrawn or Cancelled never changes again, no call
\* on it succeeds, whoever sends it and whichever of a competing withdraw
\* and cancel was included first, and no balance of its chain moves; the
\* escrowed amount and safety deposit are held while Active and paid out
\* once.
C3_ResolvedOnce ==
    /\ [](\A s \in Sides :
            /\ escrow[s].status \in Resolved =>
                  \A caller \in Parties :
                     /\ CancelOutcome(s, caller) = "NotActive"
                     /\ \A secret \in Secrets :
                           WithdrawOutcome(s, caller, secret) = "NotActive"
            /\ TokenSum(s)
                  + (IF escrow[s].status = "Active" THEN escrow[s].amount ELSE 0)
                  = TokenSupply(s)
            /\ NativeSum(s)
                  + (IF escrow[s].status = "Active" THEN escrow[s].safetyDeposit ELSE 0)
                  = ResolverNativeFunds)
    /\ [][\A s \in Sides :
            escrow[s].status \in Resolved =>
                /\ escrow'[s] = escrow[s]
                /\ token'[s] = token[s]
                /\ native'[s] = native[s]]_vars

\* Both escrows resolved, one of them by a withdrawal included when the
\* cancellation of that escrow was open as well, and the last call, on a
\* resolved escrow, failed.
C3_Witness ==
    /\ \A s \in Sides : escrow[s].status \in Resolved
    /\ \E s \in Sides :
          /\ escrow[s].status = "Withdrawn"
          /\ ResolvedElapsed(s) >= CancellationOffset(order.timeLocks, s)
    /\ lastCall = "NotActive"

\* C4: after a fill of the whole makingAmount and a withdrawal of both
\* escrows, the maker has paid makingAmount on the source chain and received
\* takingAmount on the destination chain, the resolver the reverse.
C4_Conservation ==
    ( /\ escrow["src"].status = "Withdrawn"
      /\ escrow["dst"].status = "Withdrawn"
      /\ escrow["src"].amount = order.makingAmount )
    => /\ token["src"]["maker"] = MakerSrcFunds - order.makingAmount
       /\ token["src"]["resolver"] = order.makingAmount
       /\ token["dst"]["maker"] = order.takingAmount
       /\ token["dst"]["resolver"] = ResolverDstFunds - order.takingAmount
       /\ token["src"]["other"] = 0
       /\ token["dst"]["other"] = 0

C4_Witness ==
    /\ ~order.allowMultipleFills
    /\ escrow["src"].status = "Withdrawn"
    /\ escrow["dst"].status = "Withdrawn"
    /\ now["src"] # now["dst"]

\* C5: a fill of fillAmount <= makingAmount of a multiple-fill order takes
\* exactly fillAmount from the maker on the source chain and escrows, then
\* delivers, exactly floor(takingAmount * fillAmount / makingAmount) on the
\* destination chain.
C5_Proportional ==
    /\ escrow["src"].status # "None" =>
          /\ escrow["src"].amount \in 1..order.makingAmount
          /\ escrow["src"].status = "Active" =>
                token["src"]["maker"] = MakerSrcFunds - escrow["src"].amount
    /\ escrow["dst"].status # "None" =>
          LET q == escrow["dst"].amount IN
          /\ q * order.makingAmount <= order.takingAmount * escrow["src"].amount
          /\ order.takingAmount * escrow["src"].amount < (q + 1) * order.makingAmount
          /\ escrow["dst"].status = "Active" =>
                token["dst"]["resolver"] = ResolverDstFunds - q
          /\ escrow["dst"].status = "Withdrawn" => token["dst"]["maker"] = q

C5_Witness ==
    /\ order.allowMultipleFills
    /\ escrow["src"].amount < order.makingAmount
    /\ (order.takingAmount * escrow["src"].amount) % order.makingAmount # 0
    /\ escrow["dst"].status = "Withdrawn"

\* C6: when both escrows are Cancelled (no withdrawal, so no secret was
\* revealed), every token balance equals its value before the fill and the
\* safety deposits are back with the resolver that paid them.
C6_CancelSymmetry ==
    ( /\ escrow["src"].status = "Cancelled"
      /\ escrow["dst"].status = "Cancelled" )
    => /\ ~secretPublic
       /\ token = InitToken
       /\ native = InitNative

C6_Witness ==
    /\ escrow["src"].status = "Cancelled"
    /\ escrow["dst"].status = "Cancelled"
    /\ \E s \in Sides : escrow[s].resolvedBy = "other"

\* C7: a withdrawal succeeds only with a secret whose hash is the escrow's
\* hashlock and only once the withdrawal offset has passed on the escrow's
\* own chain; before it the call fails with the timelock error; once it has
\* passed, a wrong secret sent by a caller the window admits fails with
\* InvalidSecret; a failed call changes neither the escrow nor any balance.
C7_WithdrawGated ==
    /\ [](\A side \in Sides :
            LET e == escrow[side] tl == order.timeLocks IN
            /\ e.status = "Withdrawn" =>
                  /\ HashSecret(e.secret) = e.hashlock
                  /\ ResolvedElapsed(side) >= WithdrawalOffset(tl, side)
            /\ e.status = "Active" =>
                  \A caller \in Parties, secret \in Secrets :
                     LET outcome == WithdrawOutcome(side, caller, secret) IN
                     /\ Elapsed(side) < WithdrawalOffset(tl, side)
                        => outcome = "InvalidTime"
                     /\ ( /\ Elapsed(side) >= WithdrawalOffset(tl, side)
                          /\ \/ caller = e.taker
                             \/ Elapsed(side) >= PublicWithdrawalOffset(tl, side)
                          /\ HashSecret(secret) # e.hashlock )
                        => outcome = "InvalidSecret"
                     /\ outcome = "ok" =>
                           /\ HashSecret(secret) = e.hashlock
                           /\ Elapsed(side) >= WithdrawalOffset(tl, side))
    /\ [][lastCall' \in FailedCalls =>
             UNCHANGED <<escrow, token, native, secretPublic>>]_vars

\* A wrong secret was rejected on an escrow that is past its cancellation
\* offset and still Active, after the other escrow was withdrawn.
C7_Witness ==
    /\ lastCall = "InvalidSecret"
    /\ \E side \in Sides :
          /\ escrow[side].status = "Active"
          /\ Elapsed(side) >= CancellationOffset(order.timeLocks, side)
    /\ \E side \in Sides : escrow[side].status = "Withdrawn"

C9_PrivateWindow ==
    \A side \in Sides :
        LET e == escrow[side] tl == order.timeLocks IN
        /\ ( /\ e.status = "Active"
             /\ Elapsed(side) >= WithdrawalOffset(tl, side)
             /\ Elapsed(side) < PublicWithdrawalOffset(tl, side) )
           => \A caller \in Parties \ {Taker}, secret \in Secrets :
                 WithdrawOutcome(side, caller, secret) = "InvalidCaller"
        /\ ( /\ e.status = "Active"
             /\ Elapsed(side) >= PublicWithdrawalOffset(tl, side) )
           => \A caller \in Parties :
                 WithdrawOutcome(side, caller, order.secret) = "ok"
        /\ ( /\ e.status = "Withdrawn"
             /\ ResolvedElapsed(side) < PublicWithdrawalOffset(tl, side) )
           => e.resolvedBy = Taker

\* The maker's or a third party's withdraw was rejected in the private
\* window of the source escrow.
C9_Witness ==
    /\ lastCall = "InvalidCaller"
    /\ \E side \in Sides :
          /\ escrow[side].status = "Active"
          /\ canWithdraw(order.timeLocks, side, escrow[side].deployedAt, now[side])
          /\ \A r \in Sides \ {side} : escrow[r].status = "None"

\* A withdraw by somebody other than the taker went through at the last
\* time of the model, past every offset of its escrow.
PublicWithdrawalLate ==
    \E side \in Sides :
        /\ escrow[side].status = "Withdrawn"
        /\ escrow[side].resolvedBy # Taker
        /\ escrow[side].resolvedAt = MaxTime

(***************************************************************************)
(* Scheduling: both clocks advance, every request to a node is served, and *)
(* every call that a responsive party can make with success is eventually  *)
(* made.  One primary actor, the resolver (taker of both escrows) or the    *)
(* maker, may have stopped responding; the third party has not.            *)
(***************************************************************************)
TimePasses(side) ==
    /\ MineBlock(side) \/ evm_increaseTime(side)
    /\ UNCHANGED <<privacyVars, offChainVars>>

SuccessfulCall(side, party) ==
    /\ \/ \E secret \in Secrets : withdraw(side, party, secret)
       \/ cancel(side, party)
    /\ lastCall' = "ok"
    /\ UNCHANGED <<privacyVars, offChainVars>>

\* Every party of the set makes the calls it can make with success.
Responsive(parties) ==
    \A side \in Sides : \A party \in parties : WF_vars(SuccessfulCall(side, party))

FairInit == Init /\ ~order.allowMultipleFills

FairSpec ==
    /\ FairInit
    /\ [][Next]_vars
    /\ \A side \in Sides : WF_vars(TimePasses(side))
    /\ \/ Responsive(Parties \ {Taker})
       \/ Responsive(Parties \ {"maker"})

BothDeployed == \A side \in Sides : escrow[side].status # "None"

\* C2: once both escrows are deployed, each of them is eventually Withdrawn
\* or Cancelled, whichever primary actor (the resolver or the maker) has
\* stopped responding: the other parties complete the withdrawal or the
\* cancellation.
C2_NoStuckFunds ==
    BothDeployed ~> (\A side \in Sides : escrow[side].status \in Resolved)

\* Both escrows were resolved without a call of the resolver: the source
\* escrow cancelled by a third party, the destination escrow withdrawn by
\* the maker.
C2_Witness ==
    /\ escrow["src"].status = "Cancelled"
    /\ escrow["src"].resolvedBy = "other"
    /\ ResolvedElapsed("src") >= order.timeLocks.srcPublicCancellation
    /\ escrow["dst"].status = "Withdrawn"
    /\ escrow["dst"].resolvedBy = "maker"
    /\ ~secretShared

(***************************************************************************)
(* PrivacyResolver: commit phase                                           *)
(***************************************************************************)
RevealDelays == {MIN_COMMIT_DELAY - 1, MIN_COMMIT_DELAY, MAX_COMMIT_DELAY,
                 MAX_COMMIT_DELAY + 1}

ValidRevealDelayOpen(revealDelay) ==
    revealDelay > MIN_COMMIT_DELAY /\ revealDelay < MAX_COMMIT_DELAY

\* require(revealDelay >= MIN_COMMIT_DELAY && revealDelay <= MAX_COMMIT_DELAY)
ValidRevealDelay(revealDelay) ==
    revealDelay >= MIN_COMMIT_DELAY /\ revealDelay <= MAX_COMMIT_DELAY

anySender(sender) == TRUE

\* modifier onlyOwner: the sender is the owner of the resolver contract.
onlyOwner(sender) == sender = "owner"

\* commitments[h]; a key that was never written reads as the zero struct.
Commitment(h) == IF h \in DOMAIN commitments THEN commitments[h] ELSE NoCommitment

\* canReveal(commitHash): the view function of the contract.
canReveal(commitHash) ==
    LET commitment == Commitment(commitHash) IN
    /\ commitment.commitHash # 0
    /\ blockTime >= commitment.revealAfter
    /\ ~commitment.revealed
    /\ blockTime < commitment.expireAfter

\* commitOrder(commitHash, revealDelay) sent by sender; onlyOwner.
commitOrder(sender, commitHash, revealDelay) ==
    LET result == IF ~onlyOwner(sender) THEN "NotOwner"
                  ELSE IF ~ValidRevealDelay(revealDelay) THEN "Invalid delay"
                  ELSE "ok"
        revealAfter == blockTime + revealDelay
        expireAfter == revealAfter + MAX_COMMIT_DELAY
    IN  /\ lastTx' = [op |-> "commitOrder", sender |-> sender,
                      commitHash |-> commitHash, revealDelay |-> revealDelay,
                      orderHash |-> 0, result |-> result, deploySrc |-> NoForward]
        /\ IF result = "ok"
           THEN /\ commitments' = [commitments EXCEPT ![commitHash] =
                       [commitHash |-> commitHash, revealAfter |-> revealAfter,
                        expireAfter |-> expireAfter, committer |-> sender,
                        revealed |-> FALSE, executed |-> FALSE]]
                /\ ghost' = [ghost EXCEPT !.txs = @ + 1,
                                          !.committedAt[commitHash] = blockTime]
           ELSE UNCHANGED <<commitments, ghost>>
        /\ UNCHANGED <<blockTime, delayedOrders, fakeVolumes>>

ExecutionDelays == {0, MAX_EXECUTION_DELAY - 1, MAX_EXECUTION_DELAY}

ExecuteAfterNoMinimum(timestamp, executionDelay) ==
    timestamp + (executionDelay % MAX_EXECUTION_DELAY)

\* block.timestamp + (executionDelay % MAX_EXECUTION_DELAY) + MIN_EXECUTION_DELAY
ExecuteAfter(timestamp, executionDelay) ==
    timestamp + (executionDelay % MAX_EXECUTION_DELAY) + MIN_EXECUTION_DELAY

RevealOutcomeNoRevealedCheck(sender, commitHash) ==
    LET commitment == Commitment(commitHash) IN
    IF ~onlyOwner(sender) THEN "NotOwner"
    ELSE IF commitment.commitHash = 0 THEN "CommitmentNotFound"
    ELSE IF blockTime < commitment.revealAfter THEN "TooEarlyToReveal"
    ELSE "ok"

\* The checks of revealAndScheduleOrder, in the order of the code.
RevealOutcome(sender, commitHash) ==
    LET commitment == Commitment(commitHash) IN
    IF ~onlyOwner(sender) THEN "NotOwner"
    ELSE IF commitment.commitHash = 0 THEN "CommitmentNotFound"
    ELSE IF blockTime < commitment.revealAfter THEN "TooEarlyToReveal"
    ELSE IF commitment.revealed THEN "InvalidCommitment"
    ELSE "ok"

\* The payloads of OrderDatas are in the layout abi.decode reads: the
\* decoded order and amount are the ones encoded.
Decoded(orderData) ==
    [ok |-> TRUE, order |-> orderData.order, amount |-> orderData.amount,
     orderHash |-> OrderHash(orderData)]

\* revealAndScheduleOrder from the computed commitHash on: the checks, then
\* abi.decode (a revert undoes the transaction), then the DelayedOrder
\* stored under orderHash.
Revealed(sender, commitHash, decoded, executionDelay) ==
    LET checked == RevealOutcome(sender, commitHash)
        result == IF checked = "ok" /\ ~decoded.ok THEN "DecodeReverted"
                  ELSE checked
        orderHash == decoded.orderHash
    IN  /\ lastTx' = [op |-> "revealAndScheduleOrder", sender |-> sender,
                      commitHash |-> IF result = "ok" THEN commitHash ELSE 0,
                      revealDelay |-> 0,
                      orderHash |-> IF result = "ok" THEN orderHash ELSE 0,
                      result |-> result, deploySrc |-> NoForward]
        /\ IF result = "ok"
           THEN /\ commitments' = [commitments EXCEPT ![commitHash].revealed = TRUE]
                /\ delayedOrders' = [delayedOrders EXCEPT ![orderHash] =
                       [order |-> decoded.order, amount |-> decoded.amount,
                        executeAfter |-> ExecuteAfter(blockTime, executionDelay)]]
                /\ ghost' = [ghost EXCEPT !.txs = @ + 1,
                                          !.reveals[commitHash] = @ + 1,
                                          !.revealedAt[orderHash] = blockTime]
           ELSE UNCHANGED <<commitments, delayedOrders, ghost>>
        /\ UNCHANGED <<blockTime, fakeVolumes>>

\* revealAndScheduleOrder(orderData, nonce, executionDelay) sent by sender.
revealAndScheduleOrder(sender, orderData, nonce, executionDelay) ==
    Revealed(sender, generateCommitHash(orderData, nonce, sender),
             Decoded(orderData), executionDelay)

\* _addFakeVolume: fakeMultiplier is a hash modulo 180 plus 20; the model
\* takes both ends of its range.
FakeMultipliers == {20, 199}
\* (baseAmount * fakeMultiplier) / 100
FakeAmount(baseAmount, fakeMultiplier) == Div(Mul(baseAmount, fakeMultiplier), 100)

\* The outcome of _addFakeVolume: the checked arithmetic reverts (panic) when
\* the product baseAmount * fakeMultiplier or the sum fakeVolumes[token] +
\* fakeAmount does not fit in a uint256; else `volume` is the new
\* fakeVolumes[token].  Each of the three operations is computed once, with
\* the carry that leaves the uint256 as the last element.
Panicked == [panic |-> TRUE, volume |-> Uint256(0)]
FakeVolumeOfSum(sum) ==
    IF sum[DigitCount + 1] > 0 THEN Panicked
    ELSE [panic |-> FALSE, volume |-> SubSeq(sum, 1, DigitCount)]
FakeVolumeOfProduct(volume, product) ==
    IF product[DigitCount + 1] > 0 THEN Panicked
    ELSE FakeVolumeOfSum(AddFrom(volume,
                                 Div(SubSeq(product, 1, DigitCount), 100), 1, 0))
AddFakeVolume(volume, baseAmount, fakeMultiplier) ==
    FakeVolumeOfProduct(volume, MulFrom(baseAmount, fakeMultiplier, 1, 0))

\* The immutables decoded from the order payload, and TimelocksLib's
\* setDeployedAt: the same immutables with that deployedAt.
SrcImmutables(orderId) == [order |-> orderId, deployedAt |-> 0]
setDeployedAtIgnored(immutables, value) == immutables
setDeployedAt(immutables, value) == [immutables EXCEPT !.deployedAt = value]

ExecuteOutcomeNoStoredCheck(sender, orderHash, added, deployed) ==
    LET delayed == delayedOrders[orderHash] IN
    IF ~onlyOwner(sender) THEN "NotOwner"
    ELSE IF blockTime < delayed.executeAfter THEN "ExecutionTooEarly"
    ELSE IF added.panic THEN "Panic"
    ELSE IF ~deployed THEN "DeploySrcReverted"
    ELSE "ok"

ExecuteOutcomeNoTimeCheck(sender, orderHash, added, deployed) ==
    LET delayed == delayedOrders[orderHash] IN
    IF ~onlyOwner(sender) THEN "NotOwner"
    ELSE IF delayed.executeAfter = 0 THEN "CommitmentNotFound"
    ELSE IF added.panic THEN "Panic"
    ELSE IF ~deployed THEN "DeploySrcReverted"
    ELSE "ok"

ExecuteOutcomeDeployUnchecked(sender, orderHash, added, deployed) ==
    LET delayed == delayedOrders[orderHash] IN
    IF ~onlyOwner(sender) THEN "NotOwner"
    ELSE IF delayed.executeAfter = 0 THEN "CommitmentNotFound"
    ELSE IF blockTime < delayed.executeAfter THEN "ExecutionTooEarly"
    ELSE IF added.panic THEN "Panic"
    ELSE "ok"

\* The checks of executeDelayedOrder, in the order of the code, then
\* _addFakeVolume and the call of this.deploySrc.
ExecuteOutcome(sender, orderHash, added, deployed) ==
    LET delayed == delayedOrders[orderHash] IN
    IF ~onlyOwner(sender) THEN "NotOwner"
    ELSE IF delayed.executeAfter = 0 THEN "CommitmentNotFound"
    ELSE IF blockTime < delayed.executeAfter THEN "ExecutionTooEarly"
    ELSE IF added.panic THEN "Panic"
    ELSE IF ~deployed THEN "DeploySrcReverted"
    ELSE "ok"

ForwardedWithFakeVolume(delayed) ==
    [immutables |-> SrcImmutables(delayed.order), order |-> delayed.order,
     amount |-> Add(delayed.amount, FakeAmount(delayed.amount, 20))]

\* What executeDelayedOrder passes to this.deploySrc: the stored immutables,
\* order (with r, vs, takerTraits and args) and amount.
Forwarded(delayed) ==
    [immutables |-> SrcImmutables(delayed.order), order |-> delayed.order,
     amount |-> delayed.amount]

\* The transaction of executeDelayedOrder with that outcome: on success the
\* fake volume is added, this.deploySrc is called with `forwarded` and the
\* DelayedOrder is deleted; a revert leaves the storage as it was.
Executed(sender, orderHash, added, forwarded, result) ==
    /\ lastTx' = [op |-> "executeDelayedOrder", sender |-> sender,
                  commitHash |-> 0, revealDelay |-> 0,
                  orderHash |-> orderHash, result |-> result,
                  deploySrc |-> IF result = "ok" THEN forwarded ELSE NoForward]
    /\ IF result = "ok"
       THEN /\ fakeVolumes' = added.volume
            /\ delayedOrders' = [delayedOrders EXCEPT ![orderHash] = NoDelayedOrder]
            /\ ghost' = [ghost EXCEPT !.txs = @ + 1,
                                      !.executions[orderHash] = @ + 1]
       ELSE UNCHANGED <<fakeVolumes, delayedOrders, ghost>>
    /\ UNCHANGED <<blockTime, commitments>>

\* executeDelayedOrder(orderHash) sent by sender; `deployed` tells whether
\* the call of this.deploySrc went through (a revert undoes the transaction).
ExecutedAdding(sender, orderHash, added, deployed) ==
    Executed(sender, orderHash, added, Forwarded(delayedOrders[orderHash]),
             ExecuteOutcome(sender, orderHash, added, deployed))

executeDelayedOrder(sender, orderHash, fakeMultiplier, deployed) ==
    ExecutedAdding(sender, orderHash,
                   AddFakeVolume(fakeVolumes, delayedOrders[orderHash].amount,
                                 fakeMultiplier),
                   deployed)

FakeDelayNoMinimum(fakeCommit) ==
    fakeCommit % (MAX_COMMIT_DELAY - MIN_COMMIT_DELAY)

FakeDelay(fakeCommit) ==
    MIN_COMMIT_DELAY + (fakeCommit % (MAX_COMMIT_DELAY - MIN_COMMIT_DELAY))

\* createFakeCommitments(count) sent by sender.
createFakeCommitments(sender, count) ==
    LET result == IF ~onlyOwner(sender) THEN "NotOwner" ELSE "ok"
        fakes == {FakeCommit(blockTime, i, sender) : i \in 0..(count - 1)}
    IN  /\ lastTx' = [op |-> "createFakeCommitments", sender |-> sender,
                      commitHash |-> 0, revealDelay |-> 0,
                      orderHash |-> 0, result |-> result, deploySrc |-> NoForward]
        /\ IF result = "ok" /\ count > 0
           THEN /\ commitments' = [h \in DOMAIN commitments |->
                       IF h \in fakes
                       THEN [commitHash |-> h,
                             revealAfter |-> blockTime + FakeDelay(h),
                             expireAfter |-> blockTime + FakeDelay(h) + MAX_COMMIT_DELAY,
                             committer |-> sender,
                             revealed |-> FALSE, executed |-> FALSE]
                       ELSE commitments[h]]
                /\ ghost' = [ghost EXCEPT
                       !.txs = @ + 1,
                       !.committedAt = [h \in DOMAIN @ |->
                            IF h \in fakes THEN blockTime ELSE @[h]]]
           ELSE UNCHANGED <<commitments, ghost>>
        /\ UNCHANGED <<blockTime, delayedOrders, fakeVolumes>>

\* randomDelay of deployPrivateSrc: a hash modulo 60 plus 1; the model takes
\* both ends of its range.
RandomDelays == {1, 60}

\* The checks of deployPrivateSrc: onlyOwner, then _addFakeVolume when asked
\* for, then the call of this.deploySrc.
DeployPrivateOutcome(sender, addFakeVolume, added, deployed) ==
    IF ~onlyOwner(sender) THEN "NotOwner"
    ELSE IF addFakeVolume /\ added.panic THEN "Panic"
    ELSE IF ~deployed THEN "DeploySrcReverted"
    ELSE "ok"

\* The transaction of deployPrivateSrc with that outcome.
DeployedPrivate(sender, orderData, addFakeVolume, added, modifiedImmutables, result) ==
    /\ lastTx' = [op |-> "deployPrivateSrc", sender |-> sender,
                  commitHash |-> 0, revealDelay |-> 0,
                  orderHash |-> 0, result |-> result,
                  deploySrc |-> IF result = "ok"
                                THEN [immutables |-> modifiedImmutables,
                                      order |-> orderData.order,
                                      amount |-> orderData.amount]
                                ELSE NoForward]
    /\ IF result = "ok" /\ addFakeVolume
       THEN /\ fakeVolumes' = added.volume
            /\ ghost' = [ghost EXCEPT !.txs = @ + 1]
       ELSE UNCHANGED <<fakeVolumes, ghost>>
    /\ UNCHANGED <<blockTime, commitments, delayedOrders>>

\* deployPrivateSrc(immutables, order, r, vs, amount, takerTraits, args,
\* addFakeVolume) sent by sender: the immutables go to this.deploySrc with
\* deployedAt set to block.timestamp + randomDelay.
DeployedPrivateAdding(sender, orderData, addFakeVolume, added, randomDelay, deployed) ==
    DeployedPrivate(sender, orderData, addFakeVolume, added,
                    setDeployedAt(SrcImmutables(orderData.order), blockTime + randomDelay),
                    DeployPrivateOutcome(sender, addFakeVolume, added, deployed))

deployPrivateSrc(sender, orderData, addFakeVolume, fakeMultiplier, randomDelay, deployed) ==
    DeployedPrivateAdding(sender, orderData, addFakeVolume,
                          AddFakeVolume(fakeVolumes, orderData.amount, fakeMultiplier),
                          randomDelay, deployed)

\* A block is mined: block.timestamp grows.
AdvanceTime ==
    /\ (blockTime % MAX_COMMIT_DELAY) < MaxBlocks * BlockInterval
    /\ blockTime' = blockTime + BlockInterval
    /\ lastTx' = NoTx
    /\ UNCHANGED <<commitments, delayedOrders, fakeVolumes, ghost>>

\* Nothing is sent for MAX_COMMIT_DELAY (once in a behaviour).
LongWait ==
    /\ blockTime < MAX_COMMIT_DELAY
    /\ blockTime' = blockTime + MAX_COMMIT_DELAY
    /\ lastTx' = NoTx
    /\ UNCHANGED <<commitments, delayedOrders, fakeVolumes, ghost>>

PrivacyInit ==
    /\ SwapInit
    /\ ~order.allowMultipleFills
    /\ order.timeLocks.srcWithdrawal = 0
    /\ PrivacyIdle
    /\ MerkleIdle
    /\ CoordinatorIdle
    /\ ClientIdle
    /\ UtilsIdle
    /\ FactoryIdle
    /\ SdkIdle

\* A transaction that changes the storage is counted in ghost.txs; a
\* specification follows at most `max` of them.
WithinBudget(max) == ghost' # ghost => ghost.txs < max

\* A call of a sender that is not the owner is rejected before its
\* arguments are looked at: the model sends it with the first arguments only.
OwnerOr(sender, first) == sender = "owner" \/ first

PrivacyNext ==
    \/ \E sender \in Senders, commitHash \in CommitHashes,
          revealDelay \in RevealDelays :
           /\ OwnerOr(sender, commitHash = generateCommitHash(FirstOrderData, 1, "owner"))
           /\ commitOrder(sender, commitHash, revealDelay)
           /\ WithinBudget(MaxPrivacyTxs) /\ UNCHANGED <<swapVars, offChainVars>>
    \/ \E sender \in Senders, orderData \in OrderDatas, nonce \in Nonces,
          executionDelay \in ExecutionDelays :
           /\ OwnerOr(sender, orderData.amount = SmallAmount /\ nonce = 1 /\ executionDelay = 0)
           /\ revealAndScheduleOrder(sender, orderData, nonce, executionDelay)
           /\ WithinBudget(MaxPrivacyTxs) /\ UNCHANGED <<swapVars, offChainVars>>
    \/ \E sender \in Senders, orderHash \in OrderHashes,
          fakeMultiplier \in FakeMultipliers, deployed \in BOOLEAN :
           /\ OwnerOr(sender, fakeMultiplier = 20 /\ deployed)
           /\ executeDelayedOrder(sender, orderHash, fakeMultiplier, deployed)
           /\ WithinBudget(MaxPrivacyTxs) /\ UNCHANGED <<swapVars, offChainVars>>
    \/ \E sender \in Senders, count \in FakeCounts :
           /\ OwnerOr(sender, count = 2)
           /\ createFakeCommitments(sender, count)
           /\ WithinBudget(MaxPrivacyTxs) /\ UNCHANGED <<swapVars, offChainVars>>
    \/ \E sender \in Senders, orderData \in OrderDatas, addFakeVolume \in BOOLEAN,
          fakeMultiplier \in FakeMultipliers, randomDelay \in RandomDelays,
          deployed \in BOOLEAN :
           /\ OwnerOr(sender, orderData.amount = SmallAmount /\ addFakeVolume
                              /\ fakeMultiplier = 20 /\ randomDelay = 1 /\ deployed)
           /\ addFakeVolume \/ fakeMultiplier = 20
           /\ deployed \/ randomDelay = 1
           /\ addFakeVolume => ghost.txs < MaxPrivacyTxs
           /\ deployPrivateSrc(sender, orderData, addFakeVolume, fakeMultiplier,
                               randomDelay, deployed)
           /\ WithinBudget(MaxPrivacyTxs) /\ UNCHANGED <<swapVars, offChainVars>>
    \/ AdvanceTime /\ UNCHANGED <<swapVars, offChainVars>>
    \/ LongWait /\ UNCHANGED <<swapVars, offChainVars>>

PrivacySpec == PrivacyInit /\ [][PrivacyNext]_vars

\* The order lifecycle: the owner's commits, reveals and executions.
LifecycleNext ==
    \/ \E commitHash \in CommitHashes, revealDelay \in RevealDelays :
           /\ commitOrder("owner", commitHash, revealDelay)
           /\ WithinBudget(MaxTxs) /\ UNCHANGED <<swapVars, offChainVars>>
    \/ \E orderData \in OrderDatas, nonce \in Nonces,
          executionDelay \in ExecutionDelays :
           /\ revealAndScheduleOrder("owner", orderData, nonce, executionDelay)
           /\ WithinBudget(MaxTxs) /\ UNCHANGED <<swapVars, offChainVars>>
    \/ \E orderHash \in OrderHashes, fakeMultiplier \in FakeMultipliers,
          deployed \in BOOLEAN :
           /\ executeDelayedOrder("owner", orderHash, fakeMultiplier, deployed)
           /\ WithinBudget(MaxTxs) /\ UNCHANGED <<swapVars, offChainVars>>
    \/ AdvanceTime /\ UNCHANGED <<swapVars, offChainVars>>
    \/ LongWait /\ UNCHANGED <<swapVars, offChainVars>>

LifecycleSpec == PrivacyInit /\ [][LifecycleNext]_vars

\* C10: commitOrder with a revealDelay below MIN_COMMIT_DELAY or above
\* MAX_COMMIT_DELAY fails and leaves commitments unchanged; with a
\* revealDelay in the range (sent by the owner) it stores
\* revealAfter = block.timestamp + revealDelay, committer = caller and
\* revealed = false under commitHash, and nothing else changes.
C10_CommitDelayRange ==
    [][lastTx'.op = "commitOrder" =>
         LET tx == lastTx' IN
         /\ (tx.revealDelay < 300 \/ tx.revealDelay > 3600)
               => (tx.result # "ok" /\ commitments' = commitments)
         /\ (tx.revealDelay >= 300 /\ tx.revealDelay <= 3600 /\ tx.sender = "owner")
               => /\ tx.result = "ok"
                  /\ commitments'[tx.commitHash].revealAfter = blockTime + tx.revealDelay
                  /\ commitments'[tx.commitHash].committer = tx.sender
                  /\ commitments'[tx.commitHash].revealed = FALSE
                  /\ commitments'[tx.commitHash].commitHash = tx.commitHash
                  /\ \A h \in CommitKeys \ {tx.commitHash} :
                        commitments'[h] = commitments[h]
         /\ (tx.result = "Invalid delay")
               <=> (tx.sender = "owner"
                    /\ (tx.revealDelay < 300 \/ tx.revealDelay > 3600))
      ]_vars

C10_Witness ==
    /\ lastTx.result = "Invalid delay"
    /\ lastTx.revealDelay = 3601
    /\ blockTime > 0
    /\ \E h \in CommitHashes :
          /\ commitments[h].committer = "owner"
          /\ commitments[h].revealAfter = blockTime + 3600

\* C11: a call of commitOrder, revealAndScheduleOrder, executeDelayedOrder,
\* createFakeCommitments or deployPrivateSrc by anyone but the owner fails and
\* leaves commitments, delayedOrders and fakeVolumes unchanged; the committer
\* of every stored commitment is the owner.
C11_OwnerOnly ==
    /\ [](\A h \in CommitKeys :
            commitments[h].commitHash # 0 => commitments[h].committer = "owner")
    /\ [][(lastTx'.op \in {"commitOrder", "revealAndScheduleOrder",
                           "executeDelayedOrder", "createFakeCommitments",
                           "deployPrivateSrc"}
           /\ lastTx'.sender # "owner")
          => /\ lastTx'.result = "NotOwner"
             /\ UNCHANGED <<commitments, delayedOrders, fakeVolumes>>]_vars

C11_Witness ==
    /\ lastTx.op = "executeDelayedOrder"
    /\ lastTx.sender = "stranger"
    /\ lastTx.result = "NotOwner"
    /\ \E h \in OrderHashes :
          /\ delayedOrders[h].executeAfter # 0
          /\ blockTime >= delayedOrders[h].executeAfter

\* C12: revealAndScheduleOrder(orderData, nonce, _) succeeds only if the hash
\* of (orderData, nonce, caller) is the commitHash of a stored commitment and
\* block.timestamp >= its revealAfter; a call whose (orderData, nonce, caller)
\* differs from the committed values of every stored commitment fails, and
\* flips no commitment flag and stores no DelayedOrder.
C12_RevealBinding ==
    [][lastTx'.op = "revealAndScheduleOrder" =>
      \A sender \in Senders, orderData \in OrderDatas, nonce \in Nonces,
          executionDelay \in ExecutionDelays :
          revealAndScheduleOrder(sender, orderData, nonce, executionDelay) =>
             /\ lastTx'.result = "ok" =>
                   \E h \in CommitKeys :
                      /\ commitments[h].commitHash = h
                      /\ h = generateCommitHash(orderData, nonce, sender)
                      /\ blockTime >= commitments[h].revealAfter
             /\ (\A committed \in Committed :
                    commitments[generateCommitHash(committed[1], committed[2],
                                                   committed[3])].commitHash # 0
                       => committed # <<orderData, nonce, sender>>)
                   => /\ lastTx'.result \in {"NotOwner", "CommitmentNotFound"}
                      /\ UNCHANGED <<commitments, delayedOrders, fakeVolumes>>
      ]_vars

C12_Witness ==
    /\ lastTx.op = "revealAndScheduleOrder"
    /\ lastTx.sender = "owner"
    /\ lastTx.result = "CommitmentNotFound"
    /\ \E h \in CommitHashes :
          /\ commitments[h].revealed
          /\ ghost.reveals[h] = 1
\* C13: revealAndScheduleOrder sent by the owner fails with CommitmentNotFound
\* when no stored commitment matches the recomputed hash, with
\* TooEarlyToReveal when a matching commitment is stored but block.timestamp <
\* its revealAfter, and with InvalidCommitment when the matching commitment is
\* already revealed; in each case commitments and delayedOrders are unchanged.
C13_RevealErrors ==
    [][lastTx'.op = "revealAndScheduleOrder" =>
      \A orderData \in OrderDatas, nonce \in Nonces,
          executionDelay \in ExecutionDelays :
          revealAndScheduleOrder("owner", orderData, nonce, executionDelay) =>
             LET h == generateCommitHash(orderData, nonce, "owner")
                 stored == h \in CommitKeys /\ commitments[h].commitHash # 0
             IN  /\ ~stored => lastTx'.result = "CommitmentNotFound"
                 /\ (stored /\ blockTime < commitments[h].revealAfter)
                       => lastTx'.result = "TooEarlyToReveal"
                 /\ (stored /\ commitments[h].revealed)
                       => lastTx'.result = "InvalidCommitment"
                 /\ lastTx'.result \in {"CommitmentNotFound", "TooEarlyToReveal",
                                        "InvalidCommitment"}
                       => UNCHANGED <<commitments, delayedOrders>>
      ]_vars

C13_Witness ==
    /\ lastTx.op = "revealAndScheduleOrder"
    /\ lastTx.result = "InvalidCommitment"
    /\ \E h \in CommitHashes :
          /\ commitments[h].revealed
          /\ blockTime >= commitments[h].revealAfter
    /\ \E h \in CommitHashes :
          /\ commitments[h].commitHash = h
          /\ blockTime < commitments[h].revealAfter
\* C14: across every sequence of commitOrder, revealAndScheduleOrder and
\* executeDelayedOrder calls (a second commitOrder of a stored commitHash
\* included), revealAndScheduleOrder succeeds at most once for any commitHash.
C14_RevealedOnce == \A h \in CommitHashes : ghost.reveals[h] <= 1
\* C15: once block.timestamp >= expireAfter an unrevealed commitment is
\* expired and revealAndScheduleOrder with its preimage does not succeed:
\* the reveal of a preimage succeeds at a time exactly when canReveal of its
\* commitHash is true at that time.
C15_RevealIffCanReveal ==
    [][lastTx'.op = "revealAndScheduleOrder" =>
      \A orderData \in OrderDatas, nonce \in Nonces,
          executionDelay \in ExecutionDelays :
          revealAndScheduleOrder("owner", orderData, nonce, executionDelay) =>
             (lastTx'.result = "ok"
                <=> canReveal(generateCommitHash(orderData, nonce, "owner")))
      ]_vars
Clamp(x, lo, hi) == IF x < lo THEN lo ELSE IF x > hi THEN hi ELSE x

\* C16: for every executionDelay a successful revealAndScheduleOrder at
\* block.timestamp = now stores executeAfter = now + clamp(executionDelay,
\* MIN_EXECUTION_DELAY, MAX_EXECUTION_DELAY): executeAfter - now is never
\* below 30 seconds and never above 10 minutes.
C16_ExecutionDelayClamped ==
    [][lastTx'.op = "revealAndScheduleOrder" =>
      \A orderData \in OrderDatas, nonce \in Nonces,
          executionDelay \in ExecutionDelays :
          (/\ revealAndScheduleOrder("owner", orderData, nonce, executionDelay)
           /\ lastTx'.result = "ok") =>
             LET executeAfter == delayedOrders'[OrderHash(orderData)].executeAfter
             IN  /\ executeAfter = blockTime + Clamp(executionDelay,
                                       MIN_EXECUTION_DELAY, MAX_EXECUTION_DELAY)
                 /\ executeAfter - blockTime >= 30
                 /\ executeAfter - blockTime <= 600
      ]_vars
\* C17: executeDelayedOrder sent by the owner for a stored DelayedOrder at
\* block.timestamp < executeAfter fails with ExecutionTooEarly, and for an
\* orderHash with no stored DelayedOrder with CommitmentNotFound, whether or
\* not deploySrc would go through; in both cases delayedOrders and fakeVolumes
\* are unchanged and deploySrc is not reached.
C17_ExecuteGated ==
    [][lastTx'.op = "executeDelayedOrder" =>
      \A orderHash \in OrderHashes, fakeMultiplier \in FakeMultipliers,
          deployed \in BOOLEAN :
          executeDelayedOrder("owner", orderHash, fakeMultiplier, deployed) =>
             LET stored == delayedOrders[orderHash] # NoDelayedOrder
             IN  /\ (stored /\ blockTime < delayedOrders[orderHash].executeAfter)
                       => lastTx'.result = "ExecutionTooEarly"
                 /\ ~stored => lastTx'.result = "CommitmentNotFound"
                 /\ lastTx'.result \in {"ExecutionTooEarly", "CommitmentNotFound"}
                       => UNCHANGED <<delayedOrders, fakeVolumes, commitments>>
                 /\ lastTx'.result \in {"ok", "DeploySrcReverted"}
                       => (stored /\ blockTime >= delayedOrders[orderHash].executeAfter)
      ]_vars

C17_Witness ==
    /\ lastTx.op = "executeDelayedOrder"
    /\ lastTx.result = "ExecutionTooEarly"
    /\ delayedOrders[lastTx.orderHash].executeAfter > blockTime
    /\ blockTime > ghost.revealedAt[lastTx.orderHash]
\* The successful reveals that stored orderHash.
RevealsOf(orderHash) ==
    LET hashes == {generateCommitHash(c[1], c[2], c[3]) :
                      c \in {c \in Committed : OrderHash(c[1]) = orderHash}}
        sum[S \in SUBSET hashes] ==
            IF S = {} THEN 0
            ELSE LET h == CHOOSE h \in S : TRUE
                 IN  ghost.reveals[h] + sum[S \ {h}]
    IN  sum[hashes]

\* C18: after executeDelayedOrder(orderHash) succeeds the entry is deleted,
\* and a later executeDelayedOrder(orderHash) fails until a new reveal stores
\* orderHash again: deploySrc is performed at most once per successful reveal.
C18_SingleUse ==
    /\ [](\A orderHash \in OrderHashes :
             /\ ghost.executions[orderHash] <= RevealsOf(orderHash)
             /\ ghost.executions[orderHash] = RevealsOf(orderHash)
                   => delayedOrders[orderHash] = NoDelayedOrder)
    /\ [][lastTx'.op = "executeDelayedOrder" =>
      \A orderHash \in OrderHashes, fakeMultiplier \in FakeMultipliers,
             deployed \in BOOLEAN :
             executeDelayedOrder("owner", orderHash, fakeMultiplier, deployed) =>
                /\ lastTx'.result = "ok"
                      => /\ delayedOrders[orderHash] # NoDelayedOrder
                         /\ delayedOrders'[orderHash] = NoDelayedOrder
                /\ delayedOrders[orderHash] = NoDelayedOrder
                      => lastTx'.result = "CommitmentNotFound"
         ]_vars

C18_Witness ==
    /\ lastTx.op = "executeDelayedOrder"
    /\ lastTx.result = "CommitmentNotFound"
    /\ ghost.executions[lastTx.orderHash] = 1
    /\ RevealsOf(lastTx.orderHash) = 1
\* C19: each successful executeDelayedOrder is preceded by a successful
\* revealAndScheduleOrder that stored that order, and each successful reveal
\* by a commitOrder of the matching hash; the reveal happens at least
\* MIN_COMMIT_DELAY after its commit and the execution at least
\* MIN_EXECUTION_DELAY after its reveal.
C19_LifecycleOrder ==
    /\ [](/\ \A orderHash \in OrderHashes :
               /\ ghost.executions[orderHash] > 0 => ghost.revealedAt[orderHash] >= 0
               /\ ghost.revealedAt[orderHash] >= 0 => RevealsOf(orderHash) > 0
               /\ delayedOrders[orderHash] # NoDelayedOrder
                     => ghost.revealedAt[orderHash] >= 0
           /\ \A h \in CommitHashes :
               ghost.reveals[h] > 0 => ghost.committedAt[h] >= 0)
    /\ [][LET tx == lastTx' IN
          /\ (tx.op = "revealAndScheduleOrder" /\ tx.result = "ok")
                => /\ ghost.committedAt[tx.commitHash] >= 0
                   /\ blockTime >= ghost.committedAt[tx.commitHash] + MIN_COMMIT_DELAY
          /\ (tx.op = "executeDelayedOrder" /\ tx.result = "ok")
                => /\ ghost.revealedAt[tx.orderHash] >= 0
                   /\ blockTime >= ghost.revealedAt[tx.orderHash] + MIN_EXECUTION_DELAY
         ]_vars

C19_Witness ==
    /\ lastTx.op = "executeDelayedOrder"
    /\ lastTx.result = "ok"
    /\ ghost.executions[lastTx.orderHash] = 1
    /\ blockTime >= ghost.revealedAt[lastTx.orderHash] + MIN_EXECUTION_DELAY
    /\ \E h \in CommitHashes :
          /\ ghost.reveals[h] = 1
          /\ ghost.revealedAt[lastTx.orderHash] >= ghost.committedAt[h] + MIN_COMMIT_DELAY
          /\ ghost.committedAt[h] >= 0
\* C20: a pending DelayedOrder is created only by a successful reveal and
\* removed only by its own successful execution; no other operation, a later
\* reveal of a different commitment with the same order and signature but
\* another amount included, replaces or changes its stored parameters or its
\* executeAfter.
C20_PendingUntouched ==
    [][\A orderHash \in OrderHashes :
          delayedOrders'[orderHash] # delayedOrders[orderHash] =>
             IF delayedOrders[orderHash] = NoDelayedOrder
             THEN /\ lastTx'.op = "revealAndScheduleOrder"
                  /\ lastTx'.result = "ok"
                  /\ lastTx'.orderHash = orderHash
             ELSE /\ lastTx'.op = "executeDelayedOrder"
                  /\ lastTx'.result = "ok"
                  /\ lastTx'.orderHash = orderHash
                  /\ delayedOrders'[orderHash] = NoDelayedOrder
      ]_vars

\* The case C20 names: two commitments of the same order with two amounts
\* are both revealed before any execution, and the second amount is stored.
C20_Overwritten ==
    \E orderHash \in OrderHashes :
       /\ ghost.executions[orderHash] = 0
       /\ \A h \in CommitHashes : ghost.reveals[h] = 1
       /\ delayedOrders[orderHash].amount = LargeAmount
\* C21: a successful executeDelayedOrder calls deploySrc with exactly the
\* immutables, order (r, vs, takerTraits and args with it) and amount stored at
\* the reveal; besides deleting the DelayedOrder, the only storage it changes
\* is fakeVolumes of the maker asset, and fakeVolumes never decreases.
C21_RealOrderUnaltered ==
    [][/\ Leq(fakeVolumes, fakeVolumes')
       /\ (lastTx'.op = "executeDelayedOrder" /\ lastTx'.result = "ok") =>
             LET stored == delayedOrders[lastTx'.orderHash] IN
             /\ stored # NoDelayedOrder
             /\ lastTx'.deploySrc.order = stored.order
             /\ lastTx'.deploySrc.amount = stored.amount
             /\ lastTx'.deploySrc.immutables = SrcImmutables(stored.order)
             /\ commitments' = commitments
             /\ \A orderHash \in OrderHashes \ {lastTx'.orderHash} :
                   delayedOrders'[orderHash] = delayedOrders[orderHash]
             /\ delayedOrders'[lastTx'.orderHash] = NoDelayedOrder
      ]_vars

C21_Witness ==
    /\ lastTx.op = "executeDelayedOrder"
    /\ lastTx.result = "ok"
    /\ lastTx.deploySrc.amount = SmallAmount
    /\ fakeVolumes = Uint256(199)
    /\ ghost.executions[lastTx.orderHash] = 1
\* C22: for every stored amount of the uint256 range and every prior value
\* of fakeVolumes, executeDelayedOrder sent by the owner at block.timestamp >=
\* executeAfter succeeds whenever deploySrc would: the arithmetic of the fake
\* volume (fakeMultiplier in 20..199) does not revert.
C22_FakeVolumeNeverBlocks ==
    [][lastTx'.op = "executeDelayedOrder" =>
      \A orderHash \in OrderHashes, fakeMultiplier \in FakeMultipliers :
         (/\ executeDelayedOrder("owner", orderHash, fakeMultiplier, TRUE)
          /\ delayedOrders[orderHash] # NoDelayedOrder
          /\ blockTime >= delayedOrders[orderHash].executeAfter)
            => lastTx'.result = "ok"
      ]_vars

\* The order of the largest amount is stored and due, and its execution has
\* reverted in the fake-volume arithmetic.
C22_Blocked ==
    /\ lastTx.op = "executeDelayedOrder"
    /\ lastTx.result = "Panic"
    /\ delayedOrders[lastTx.orderHash].amount = LargeAmount
    /\ blockTime >= delayedOrders[lastTx.orderHash].executeAfter

(***************************************************************************)
(* Multiple-fill hashlock (HashLock of the SDK)                            *)
(*                                                                         *)
(* A hash is the list of the words it was computed from, behind a tag of   *)
(* the kind of hash: two hashes are equal exactly when their inputs are.   *)
(* The numeric value of a hash orders the lists by length and then word    *)
(* by word.                                                                *)
(***************************************************************************)
MaxLeaves == 4

SecretLists == UNION {[1..n -> Secrets] : n \in 1..MaxLeaves}

\* A leaf that leaves the index out of the hashed words.
MerkleLeafNoIndex(idx, secretHash) == <<2, secretHash>>

\* leaf = hash(index || hash(secret))
MerkleLeaf(idx, secretHash) == <<2, idx, secretHash>>

\* HashLock.getMerkleLeaves(secrets); the index is the position, from 0.
getMerkleLeaves(secrets) ==
    [i \in 1..Len(secrets) |-> MerkleLeaf(i - 1, HashSecret(secrets[i]))]

HashLess(a, b) ==
    \/ Len(a) < Len(b)
    \/ /\ Len(a) = Len(b)
       /\ \E i \in 1..Len(a) :
             a[i] < b[i] /\ \A j \in 1..(i - 1) : a[j] = b[j]

\* The hash of a pair of nodes: the pair is sorted by numeric value first.
hashPair(a, b) ==
    IF HashLess(a, b) THEN <<3, Len(a)>> \o a \o b
                      ELSE <<3, Len(b)>> \o b \o a

\* The tree of n leaves has 2n - 1 nodes: node 0 is the root, the children
\* of node p are 2p + 1 and 2p + 2, and leaf i is node 2n - 2 - i.
LeafNode(leaves, idx) == 2 * Len(leaves) - 2 - idx

RECURSIVE TreeNode(_, _)
TreeNode(leaves, p) ==
    IF p >= Len(leaves) - 1
    THEN leaves[2 * Len(leaves) - 2 - p + 1]
    ELSE hashPair(TreeNode(leaves, 2 * p + 1), TreeNode(leaves, 2 * p + 2))

TreeNodes(leaves) == {TreeNode(leaves, p) : p \in 0..(2 * Len(leaves) - 2)}

\* HashLock.forMultipleFills(leaves): the Merkle root; fails under 2 leaves.
CanBuildMultipleFills(leaves) == Len(leaves) >= 2
forMultipleFills(leaves) == TreeNode(leaves, 0)

Sibling(p) == IF p % 2 = 1 THEN p + 1 ELSE p - 1
Parent(p) == (p - 1) \div 2

RECURSIVE ProofFrom(_, _)
ProofFrom(leaves, p) ==
    IF p = 0 THEN <<>>
    ELSE <<TreeNode(leaves, Sibling(p))>> \o ProofFrom(leaves, Parent(p))

\* HashLock.getProof(leaves, idx): the siblings from the leaf to the root.
getProof(leaves, idx) == ProofFrom(leaves, LeafNode(leaves, idx))

RECURSIVE ProcessProof(_, _, _)
ProcessProof(node, proof, k) ==
    IF k > Len(proof) THEN node
    ELSE ProcessProof(hashPair(node, proof[k]), proof, k + 1)

\* The check of a fill: the leaf of (idx, secretHash) leads to the root.
verify(root, proof, idx, secretHash) ==
    ProcessProof(MerkleLeaf(idx, secretHash), proof, 1) = root

\* Hashes somebody can put in the place of a proof element.
OtherHashes(secrets) ==
    TreeNodes(getMerkleLeaves(secrets))
        \cup {<<1, HashSecret(secret)>> : secret \in Secrets}
        \cup {MerkleLeaf(i, HashSecret(secret)) :
                 i \in 0..MaxLeaves, secret \in Secrets}

\* The maker builds the hashlock of the order from the secrets.
MultipleFillsOrder(secrets) ==
    /\ merkle.stage = "idle"
    /\ merkle' =
          IF CanBuildMultipleFills(getMerkleLeaves(secrets))
          THEN [merkle EXCEPT !.stage = "order", !.secrets = secrets,
                              !.root = forMultipleFills(getMerkleLeaves(secrets))]
          ELSE [merkle EXCEPT !.stage = "rejected", !.secrets = secrets]

\* The resolver takes the proof of the fill of index idx.
getMultipleFillInteraction(idx) ==
    /\ merkle.stage = "order"
    /\ idx \in 0..(Len(merkle.secrets) - 1)
    /\ merkle' = [merkle EXCEPT
          !.stage = "proof", !.idx = idx,
          !.secretHash = HashSecret(merkle.secrets[idx + 1]),
          !.proof = getProof(getMerkleLeaves(merkle.secrets), idx)]

\* One element of the proof is replaced by another hash.
ReplaceProofElement(k, hash) ==
    /\ merkle.stage = "proof" /\ merkle.changed = "nothing"
    /\ k \in 1..Len(merkle.proof)
    /\ hash # merkle.proof[k]
    /\ merkle' = [merkle EXCEPT !.proof[k] = hash, !.changed = "proof"]

\* The proof is presented with another index.
UseOtherIndex(idx) ==
    /\ merkle.stage = "proof" /\ merkle.changed = "nothing"
    /\ idx # merkle.idx
    /\ merkle' = [merkle EXCEPT !.idx = idx, !.changed = "index"]

\* The fill is checked against the hashlock of the order.
VerifyFill ==
    /\ merkle.stage = "proof"
    /\ merkle' = [merkle EXCEPT
          !.stage = "checked",
          !.verified = verify(merkle.root, merkle.proof, merkle.idx,
                              merkle.secretHash)]

MerkleNext ==
    \/ \E secrets \in SecretLists :
          MultipleFillsOrder(secrets) /\ UNCHANGED <<swapVars, privacyVars, coordinator, client, utils, factory, sdk>>
    \/ \E idx \in 0..(MaxLeaves - 1) :
          getMultipleFillInteraction(idx) /\ UNCHANGED <<swapVars, privacyVars, coordinator, client, utils, factory, sdk>>
    \/ \E k \in 1..MaxLeaves, hash \in OtherHashes(merkle.secrets) :
          ReplaceProofElement(k, hash) /\ UNCHANGED <<swapVars, privacyVars, coordinator, client, utils, factory, sdk>>
    \/ \E idx \in 0..MaxLeaves :
          UseOtherIndex(idx) /\ UNCHANGED <<swapVars, privacyVars, coordinator, client, utils, factory, sdk>>
    \/ VerifyFill /\ UNCHANGED <<swapVars, privacyVars, coordinator, client, utils, factory, sdk>>

MerkleSpec == PrivacyInit /\ [][MerkleNext]_vars

\* C23: for a list of 2 or more secrets and an index of the list, the proof
\* of getProof, the index and the hash of the secret of that index verify
\* against the root of forMultipleFills(getMerkleLeaves(secrets)); with one
\* element of the proof replaced, or with another index, they do not.
C23_MerkleRoundTrip ==
    merkle.stage = "checked" =>
        /\ Len(merkle.secrets) >= 2
        /\ merkle.verified <=> merkle.changed = "nothing"

\* A fill of the last of three secrets verified, its proof unchanged.
C23_Witness ==
    /\ merkle.stage = "checked"
    /\ merkle.verified
    /\ merkle.changed = "nothing"
    /\ Len(merkle.secrets) = 3
    /\ merkle.idx = 2
    /\ Len(merkle.proof) = 1

(***************************************************************************)
(* The resolver coordinator's run of one swap                              *)
(*                                                                         *)
(* Every transaction is awaited before the next one is sent; a reverted    *)
(* transaction ends the run.  The chains' clocks also advance on their     *)
(* own, and the maker shares the secret once the destination escrow is     *)
(* deployed.                                                               *)
(***************************************************************************)
\* Fill: withdraw on the destination chain, then on the source chain.
FillSrcFirst ==
    << [op |-> "deploySrc", side |-> "src"],
       [op |-> "getSrcDeployEvent", side |-> "src"],
       [op |-> "deployDst", side |-> "dst"],
       [op |-> "increaseTime", side |-> "-"],
       [op |-> "withdraw", side |-> "src"],
       [op |-> "withdraw", side |-> "dst"] >>

Fill ==
    << [op |-> "deploySrc", side |-> "src"],
       [op |-> "getSrcDeployEvent", side |-> "src"],
       [op |-> "deployDst", side |-> "dst"],
       [op |-> "increaseTime", side |-> "-"],
       [op |-> "withdraw", side |-> "dst"],
       [op |-> "withdraw", side |-> "src"] >>

CancelWithoutDst ==
    << [op |-> "deploySrc", side |-> "src"],
       [op |-> "getSrcDeployEvent", side |-> "src"],
       [op |-> "increaseTime", side |-> "-"],
       [op |-> "cancel", side |-> "src"] >>

\* Cancel: cancel on the destination chain, then on the source chain.
Cancel ==
    << [op |-> "deploySrc", side |-> "src"],
       [op |-> "getSrcDeployEvent", side |-> "src"],
       [op |-> "deployDst", side |-> "dst"],
       [op |-> "increaseTime", side |-> "-"],
       [op |-> "cancel", side |-> "dst"],
       [op |-> "cancel", side |-> "src"] >>

Tests == {"Fill", "Cancel"}
Steps(test) == IF test = "Fill" THEN Fill ELSE Cancel

\* increaseTime(11) of Fill, increaseTime(125) of Cancel.
Wait(test) == IF test = "Fill" THEN FillWait ELSE CancelWait

\* The coordinator is about to run the step op on side: everything it
\* awaited has returned, the helper increaseTime with both its requests.
At(op, side) ==
    /\ coordinator.status = "running"
    /\ pending = NoRequests
    /\ Steps(coordinator.test)[coordinator.step] = [op |-> op, side |-> side]

Proceeded(c) ==
    [c EXCEPT !.step = @ + 1,
              !.status = IF c.step = Len(Steps(c.test)) THEN "done" ELSE "running"]

\* The awaited transaction: the run goes on when it succeeded.
Awaited(c, result) ==
    IF result = "ok" THEN Proceeded(c) ELSE [c EXCEPT !.status = "failed"]

RunTest(test) ==
    /\ coordinator.status = "idle"
    /\ coordinator' = [coordinator EXCEPT !.test = test, !.step = 1,
                                          !.status = "running"]
    /\ UNCHANGED swapVars

CoordinatorDeploySrc(fillAmount) ==
    /\ At("deploySrc", "src")
    /\ deploySrc(fillAmount)
    /\ coordinator' = Awaited(coordinator, lastCall')

\* srcFactory.getSrcDeployEvent: the Immutables of the source escrow and
\* the complement of the destination chain.
getSrcDeployEvent ==
    /\ At("getSrcDeployEvent", "src")
    /\ escrow["src"].status # "None"
    /\ coordinator' = [Proceeded(coordinator) EXCEPT !.srcEscrowEvent = SrcEscrowEvent]
    /\ UNCHANGED swapVars

\* deployDst with the Immutables derived from the event the coordinator read.
CoordinatorDeployDst ==
    /\ At("deployDst", "dst")
    /\ deployDstWith(dstImmutables(coordinator.srcEscrowEvent))
    /\ coordinator' = Awaited(coordinator, lastCall')

\* The test's call of the helper: the two requests are sent; the next step
\* of the run waits for both.
CoordinatorIncreaseTime ==
    /\ At("increaseTime", "-")
    /\ increaseTime(Wait(coordinator.test))
    /\ coordinator' = Proceeded(coordinator)

CoordinatorWithdraw(side) ==
    /\ At("withdraw", side)
    /\ withdraw(side, "resolver", order.secret)
    /\ coordinator' = Awaited(coordinator, lastCall')

CoordinatorCancel(side) ==
    /\ At("cancel", side)
    /\ cancel(side, "resolver")
    /\ coordinator' = Awaited(coordinator, lastCall')

CoordinatorNext ==
    \/ \E test \in Tests :
          RunTest(test) /\ UNCHANGED <<privacyVars, merkle, client, utils, factory, sdk>>
    \/ \E fillAmount \in 1..MaxAmount :
          CoordinatorDeploySrc(fillAmount) /\ UNCHANGED <<privacyVars, merkle, client, utils, factory, sdk>>
    \/ getSrcDeployEvent /\ UNCHANGED <<privacyVars, merkle, client, utils, factory, sdk>>
    \/ CoordinatorDeployDst /\ UNCHANGED <<privacyVars, merkle, client, utils, factory, sdk>>
    \/ CoordinatorIncreaseTime /\ UNCHANGED <<privacyVars, merkle, client, utils, factory, sdk>>
    \/ \E side \in Sides :
          CoordinatorWithdraw(side) /\ UNCHANGED <<privacyVars, merkle, client, utils, factory, sdk>>
    \/ \E side \in Sides :
          CoordinatorCancel(side) /\ UNCHANGED <<privacyVars, merkle, client, utils, factory, sdk>>
    \/ ShareSecret /\ UNCHANGED <<privacyVars, offChainVars>>
    \/ \E side \in Sides :
          MineBlock(side) /\ UNCHANGED <<privacyVars, offChainVars>>
    \/ \E side \in Sides :
          evm_increaseTime(side) /\ UNCHANGED <<privacyVars, offChainVars>>

CoordinatorSpec == Init /\ [][CoordinatorNext]_vars

\* C24: in a swap run by the resolver coordinator, the withdraw on the
\* source escrow succeeds only after the withdraw on the destination escrow
\* did (which made the secret public), and a completed Fill has both.
C24_DstWithdrawFirst ==
    [][/\ (escrow["src"].status # "Withdrawn" /\ escrow'["src"].status = "Withdrawn")
            => escrow["dst"].status = "Withdrawn" /\ secretPublic
       /\ (coordinator'.status = "done" /\ coordinator'.test = "Fill")
            => /\ escrow'["dst"].status = "Withdrawn"
               /\ escrow'["src"].status = "Withdrawn"]_vars

\* A completed Fill: both escrows withdrawn by the resolver, on chains
\* whose clocks have moved apart.
C24_Witness ==
    /\ coordinator.status = "done"
    /\ coordinator.test = "Fill"
    /\ escrow["dst"].status = "Withdrawn"
    /\ escrow["src"].status = "Withdrawn"
    /\ escrow["src"].resolvedBy = "resolver"
    /\ now["src"] # now["dst"]

\* The state of the swap attempt, read off the two escrows.
SwapState ==
    IF escrow["src"].status = "None" THEN "Created"
    ELSE IF escrow["src"].status = "Active" /\ escrow["dst"].status = "None"
         THEN "SrcDeployed"
    ELSE IF escrow["src"].status = "Active" /\ escrow["dst"].status = "Active"
         THEN "DstDeployed"
    ELSE IF "Withdrawn" \in {escrow[side].status : side \in Sides}
         THEN "Withdrawn"
    ELSE "Cancelled"

SwapPath ==
    { <<"Created", "SrcDeployed">>, <<"SrcDeployed", "DstDeployed">>,
      <<"DstDeployed", "Withdrawn">>, <<"DstDeployed", "Cancelled">> }

\* C25: a swap attempt run by the coordinator changes state only along
\* Created -> SrcDeployed -> DstDeployed -> {Withdrawn | Cancelled}, so
\* Withdrawn and Cancelled are never left; the destination escrow is
\* deployed only after the source deployment event was read, and it holds
\* the hashlock of the source escrow, the amount and the safety deposit of
\* the complement, and the resolver as taker.
C25_SwapStateMachine ==
    [][/\ SwapState' # SwapState => <<SwapState, SwapState'>> \in SwapPath
       /\ (escrow["dst"].status = "None" /\ escrow'["dst"].status # "None")
            => /\ coordinator.srcEscrowEvent.observed
               /\ escrow["src"].status = "Active"
               /\ escrow'["dst"].hashlock = escrow["src"].hashlock
               /\ escrow'["dst"].amount = DstAmount(escrow["src"].amount)
               /\ escrow'["dst"].safetyDeposit = DstSafetyDeposit
               /\ escrow'["dst"].taker = "resolver"
               /\ escrow'["dst"].deployedAt = now["dst"]]_vars

\* The Cancel run completed: both escrows cancelled after both were deployed.
C25_Witness ==
    /\ coordinator.status = "done"
    /\ coordinator.test = "Cancel"
    /\ coordinator.srcEscrowEvent.observed
    /\ SwapState = "Cancelled"
    /\ escrow["dst"].status = "Cancelled"
    /\ escrow["src"].status = "Cancelled"

\* The commitments the order of the last executeDelayedOrder was revealed
\* from: revealed, of that order hash and of the amount that was executed.
ExecutedFrom ==
    {generateCommitHash(c[1], c[2], c[3]) :
        c \in {c \in Committed :
                  /\ OrderHash(c[1]) = lastTx.orderHash
                  /\ c[1].amount = lastTx.deploySrc.amount
                  /\ commitments[generateCommitHash(c[1], c[2], c[3])].revealed}}

\* C26: after executeDelayedOrder succeeded for an order revealed from a
\* commitment, the executed flag of that commitment is true.
C26_ExecutedFlagSet ==
    (lastTx.op = "executeDelayedOrder" /\ lastTx.result = "ok") =>
        \A h \in ExecutedFrom : commitments[h].executed

\* An order committed, revealed and executed; its commitment's executed
\* flag is still false.
C26_NotMarked ==
    /\ lastTx.op = "executeDelayedOrder"
    /\ lastTx.result = "ok"
    /\ ghost.executions[lastTx.orderHash] = 1
    /\ \E h \in ExecutedFrom :
          /\ ghost.reveals[h] = 1
          /\ commitments[h].revealed
          /\ ~commitments[h].executed

\* C27: every stored commitment, of commitOrder and of
\* createFakeCommitments, has expireAfter = revealAfter + MAX_COMMIT_DELAY
\* and a revealAfter between MIN_COMMIT_DELAY and MAX_COMMIT_DELAY after the
\* time it was stored.
C27_CommitmentWindow ==
    \A h \in CommitKeys :
        commitments[h].commitHash # 0 =>
            /\ ghost.committedAt[h] >= 0
            /\ commitments[h].expireAfter = commitments[h].revealAfter + 3600
            /\ commitments[h].revealAfter >= ghost.committedAt[h] + 300
            /\ commitments[h].revealAfter <= ghost.committedAt[h] + 3600

\* A commitment of commitOrder with the longest delay next to two fake
\* commitments, one with the shortest and one with the longest fake delay.
C27_Witness ==
    /\ \E h \in CommitHashes :
          /\ commitments[h].commitHash # 0
          /\ commitments[h].revealAfter = ghost.committedAt[h] + 3600
    /\ \E h \in FakeHashes :
          /\ commitments[h].commitHash # 0
          /\ commitments[h].revealAfter = ghost.committedAt[h] + 300
    /\ \E h \in FakeHashes :
          /\ commitments[h].commitHash # 0
          /\ commitments[h].revealAfter = ghost.committedAt[h] + 3599

\* The step left everything of executeDelayedOrder(orderHash) as it was:
\* the same call, with a deploySrc that succeeds, succeeds after it.
StillExecutable(orderHash, added) ==
    /\ delayedOrders' = delayedOrders
    /\ fakeVolumes' = fakeVolumes
    /\ commitments' = commitments
    /\ blockTime' = blockTime
    /\ ExecuteOutcome("owner", orderHash, added, TRUE) = "ok"

\* C28: when the deploySrc call inside executeDelayedOrder fails, the
\* transaction fails: the DelayedOrder stays stored with the same
\* executeAfter, fakeVolumes and the commitments are unchanged, and a later
\* executeDelayedOrder of the same orderHash can still succeed.
C28_FailedExecutionAtomic ==
    [][lastTx'.op = "executeDelayedOrder" =>
         \A orderHash \in OrderHashes, fakeMultiplier \in FakeMultipliers :
            ( /\ executeDelayedOrder("owner", orderHash, fakeMultiplier, FALSE)
              /\ delayedOrders[orderHash] # NoDelayedOrder
              /\ blockTime >= delayedOrders[orderHash].executeAfter
              /\ ~MulOverflows(delayedOrders[orderHash].amount, fakeMultiplier) )
            => /\ lastTx'.result = "DeploySrcReverted"
               /\ lastTx'.deploySrc = NoForward
               /\ delayedOrders'[orderHash].executeAfter
                      = delayedOrders[orderHash].executeAfter
               /\ StillExecutable(orderHash,
                                  AddFakeVolume(fakeVolumes,
                                                delayedOrders[orderHash].amount,
                                                fakeMultiplier))
      ]_vars

\* The deploySrc of an execution that was due reverted; the order is still
\* stored and no fake volume was added.
C28_Witness ==
    /\ lastTx.op = "executeDelayedOrder"
    /\ lastTx.result = "DeploySrcReverted"
    /\ delayedOrders[lastTx.orderHash] # NoDelayedOrder
    /\ delayedOrders[lastTx.orderHash].amount = SmallAmount
    /\ blockTime >= delayedOrders[lastTx.orderHash].executeAfter
    /\ fakeVolumes = Uint256(0)

\* C29: deployPrivateSrc calls deploySrc with the caller's immutables, only
\* deployedAt changed, to block.timestamp + d with 1 <= d <= 60, and with
\* the caller's order and amount; with addFakeVolume = false fakeVolumes
\* stays as it was; commitments and delayedOrders are never changed.
C29_PrivateDeployFrame ==
    [][lastTx'.op = "deployPrivateSrc" =>
         /\ commitments' = commitments
         /\ delayedOrders' = delayedOrders
         /\ lastTx'.result = "ok" =>
               /\ [lastTx'.deploySrc.immutables EXCEPT !.deployedAt = 0]
                      = SrcImmutables(lastTx'.deploySrc.order)
               /\ lastTx'.deploySrc.immutables.deployedAt - blockTime \in 1..60
               /\ lastTx'.deploySrc.immutables.deployedAt > blockTime'
         /\ \A orderData \in OrderDatas, randomDelay \in RandomDelays,
               deployed \in BOOLEAN :
               deployPrivateSrc("owner", orderData, FALSE, 20, randomDelay, deployed)
               => /\ fakeVolumes' = fakeVolumes
                  /\ lastTx'.result = "ok" <=> deployed
                  /\ deployed =>
                       /\ lastTx'.deploySrc.order = orderData.order
                       /\ lastTx'.deploySrc.amount = orderData.amount
                       /\ lastTx'.deploySrc.immutables =
                              [SrcImmutables(orderData.order) EXCEPT
                                  !.deployedAt = blockTime + randomDelay]
      ]_vars

\* A deployPrivateSrc without fake volume went through with the longest
\* delay, after blocks were mined.
C29_Witness ==
    /\ lastTx.op = "deployPrivateSrc"
    /\ lastTx.result = "ok"
    /\ lastTx.deploySrc.immutables.deployedAt = blockTime + 60
    /\ lastTx.deploySrc.amount = LargeAmount
    /\ blockTime > 0
    /\ fakeVolumes = Uint256(0)

(***************************************************************************)
(* Multiple fills: the secret of a fill                                    *)
(***************************************************************************)
\* The order of the multiple-fill tests: makingAmount 100 and takingAmount
\* 99 USDC, in units of ten.
MultipleFillsAmount == 10
\* The secrets of an order of N parts: N + 1 distinct secrets.
FillSecretLists == {[i \in 1..n |-> i] : n \in 2..MaxLeaves}

\* The maker and the resolver funded as in every test, and the order of the
\* multiple-fill tests.
MultipleFillsInit ==
    /\ order \in [makingAmount : {MultipleFillsAmount},
                  takingAmount : {MultipleFillsAmount - 1},
                  allowMultipleFills : {TRUE}, secret : {1},
                  timeLocks : {tl \in TimeLockChoices : tl.srcWithdrawal > 0}]
    /\ now = [s \in Sides |-> 0]
    /\ escrow = [s \in Sides |-> NoEscrow]
    /\ token = InitToken
    /\ native = InitNative
    /\ secretShared = FALSE
    /\ secretPublic = FALSE
    /\ lastCall = NoCall
    /\ pending = NoRequests
    /\ PrivacyIdle
    /\ MerkleIdle
    /\ CoordinatorIdle
    /\ ClientIdle
    /\ UtilsIdle
    /\ FactoryIdle
    /\ SdkIdle

\* idx of the test "Fill 50%":
\* Number((BigInt(secrets.length - 1) * (fillAmount - 1n)) / order.makingAmount)
PartialFillIndex(secretCount, fillAmount, makingAmount) ==
    ((secretCount - 1) * (fillAmount - 1)) \div makingAmount

\* idx of the test "Fill 100%": secrets.length - 1, the last index.
LastFillIndex(secretCount) == secretCount - 1

\* The resolver fills fillAmount of the order: the proof and the hash of the
\* secret of idx go into the interaction and secretHashes[idx] is the
\* hashlock of the escrows of the fill; the fill is accepted when the proof
\* leads to the root of the order.
FillWith(fillAmount, idx) ==
    /\ getMultipleFillInteraction(idx)
    /\ verify(merkle.root, merkle'.proof, idx, merkle'.secretHash)
    /\ deploySrcWith(fillAmount, merkle'.secretHash)

\* "Multiple fills. Fill 100%": fillAmount = order.makingAmount.
FillWhole == FillWith(order.makingAmount, LastFillIndex(Len(merkle.secrets)))

\* "Multiple fills. Fill 50%", for every part fillAmount of the order (the
\* test fills order.makingAmount / 2).
FillPart(fillAmount) ==
    /\ fillAmount < order.makingAmount
    /\ FillWith(fillAmount,
                PartialFillIndex(Len(merkle.secrets), fillAmount,
                                 order.makingAmount))

\* The secret of the fill: secrets[idx].
FillSecret == merkle.secrets[merkle.idx + 1]

\* withdraw of the tests, sent by the resolver: the secret of the fill is
\* the maker's until shared or published.
WithdrawFill(side, caller, secret) ==
    /\ merkle.stage = "proof"
    /\ secret = FillSecret => KnowsSecret(caller)
    /\ Withdrawn(side, caller, secret)

MultipleFillsNext ==
    \/ \E secrets \in FillSecretLists :
          MultipleFillsOrder(secrets)
              /\ UNCHANGED <<swapVars, privacyVars, coordinator, client, utils, factory, sdk>>
    \/ FillWhole /\ UNCHANGED <<privacyVars, coordinator, client, utils, factory, sdk>>
    \/ \E fillAmount \in 1..MultipleFillsAmount :
          FillPart(fillAmount) /\ UNCHANGED <<privacyVars, coordinator, client, utils, factory, sdk>>
    \/ deployDst /\ UNCHANGED <<privacyVars, offChainVars>>
    \/ ShareSecret /\ UNCHANGED <<privacyVars, offChainVars>>
    \/ \E side \in Sides, secret \in 1..MaxLeaves :
          WithdrawFill(side, Taker, secret) /\ UNCHANGED <<privacyVars, offChainVars>>
    \/ \E side \in Sides : MineBlock(side) /\ UNCHANGED <<privacyVars, offChainVars>>
    \/ \E t \in Waits :
          increaseTime(t) /\ DeployableAfter(t)
          /\ UNCHANGED <<privacyVars, offChainVars>>
    \/ \E side \in Sides :
          evm_increaseTime(side) /\ UNCHANGED <<privacyVars, offChainVars>>

MultipleFillsSpec == MultipleFillsInit /\ [][MultipleFillsNext]_vars

\* The fill of the model: N parts, the amount filled and the index used.
FillParts == Len(merkle.secrets) - 1
Filled == escrow["src"].amount

\* The first fill of an order with N + 1 secrets, as the tests make it: a
\* part f < makingAmount is authorised with the secret of index
\* floor(N * (f - 1) / makingAmount), the whole order with the last secret,
\* of index N; the hashlock of both escrows of the fill is the hash of that
\* secret, and a withdrawal goes through with that secret and no other.  A
\* second fill of the same order is sent by no code of the repository.
FirstFillSecret ==
    /\ [](escrow["src"].status # "None" =>
             /\ Filled < order.makingAmount =>
                   /\ merkle.idx = (FillParts * (Filled - 1)) \div order.makingAmount
                   /\ merkle.idx * order.makingAmount <= FillParts * (Filled - 1)
                   /\ FillParts * (Filled - 1) < (merkle.idx + 1) * order.makingAmount
                   /\ merkle.idx < FillParts
             /\ Filled = order.makingAmount => merkle.idx = FillParts
             /\ merkle.secretHash = HashSecret(FillSecret)
             /\ \A side \in Sides :
                   /\ escrow[side].status # "None" =>
                         escrow[side].hashlock = HashSecret(FillSecret)
                   /\ escrow[side].status = "Withdrawn" =>
                         escrow[side].secret = FillSecret)
    /\ [][\A side \in Sides, secret \in 1..MaxLeaves :
             WithdrawFill(side, Taker, secret) =>
                 (lastCall' = "InvalidSecret"
                      <=> /\ lastCall' \notin {"NotActive", "InvalidCaller",
                                               "InvalidTime"}
                          /\ secret # FillSecret)]_vars

\* Half of an order of three parts was filled with the second secret, and
\* both escrows were withdrawn with it.
FirstFillWithdrawn ==
    /\ FillParts = 3
    /\ Filled = order.makingAmount \div 2
    /\ merkle.idx = 1
    /\ escrow["src"].status = "Withdrawn"
    /\ escrow["dst"].status = "Withdrawn"
    /\ escrow["dst"].secret = FillSecret

(***************************************************************************)
(* PrivacyClient: the commitment computed off-chain                        *)
(***************************************************************************)
\* ethers.toBeHex(value) without a width: the bytes of value, no padding.
toBeHexUnpadded(value, width) ==
    IF value < 256 THEN <<value>>
    ELSE IF value < 65536 THEN <<value \div 256, value % 256>>
    ELSE <<value \div 65536, (value \div 256) % 256, value % 256>>

\* ethers.toBeHex(value, width): width bytes, most significant first.
RECURSIVE toBeHex(_, _)
toBeHex(value, width) ==
    IF width = 0 THEN <<>>
    ELSE toBeHex(value \div 256, width - 1) \o <<value % 256>>

\* ethers.getAddress(address): the checksummed address, 20 bytes.
getAddress(account) == AddressBytes(account)

\* ethers.concat
RECURSIVE concat(_)
concat(items) ==
    IF items = <<>> THEN <<>> ELSE Head(items) \o concat(Tail(items))

\* PrivacyClient.generateCommitment: commitHash =
\* keccak256(concat([orderData, toBeHex(nonce, 32), getAddress(signer)])).
ClientCommitHash(orderData, nonce, signer) ==
    keccak256(concat(<<orderData, toBeHex(nonce, 32), getAddress(signer)>>))

\* createPrivateOrder(makingAmount, takingAmount, makerAsset, takerAsset,
\* ...) of a client with that signer: the order is built and signOrder is
\* awaited; when it throws, the call is rejected with nothing signed and
\* nothing sent (runCompletePrivacyFlow goes to its catch).
createPrivateOrder(signer, makingAmount, makerAsset) ==
    LET privateOrder == PrivateOrder(signer, makingAmount, makerAsset, "0x0") IN
    /\ client.stage = "idle"
    /\ client' = [NoClient EXCEPT
                     !.stage = IF signOrder(privateOrder).threw THEN "rejected"
                               ELSE "created",
                     !.signer = signer,
                     !.order = privateOrder]
    /\ UNCHANGED privacyVars

\* generateCommitment(order, signature, immutables, amount) of a client
\* whose signer made the order, called with the order createPrivateOrder
\* returned or with an order made by hand: orderData is the client's
\* encoding, which throws on an address text the coder rejects.
generateCommitment(signer, privateOrder, nonce) ==
    /\ client.stage \in {"idle", "created"}
    /\ client.stage = "created" =>
          signer = client.signer /\ privateOrder = client.order
    /\ client' = IF BadAddressChecksum(privateOrder.makerAsset)
                        \/ BadAddressChecksum(privateOrder.takerAsset)
                 THEN [NoClient EXCEPT !.stage = "rejected", !.signer = signer,
                                       !.order = privateOrder]
                 ELSE [stage |-> "generated", signer |-> signer,
                       order |-> privateOrder,
                       orderData |-> ClientPayload(privateOrder).bytes,
                       nonce |-> nonce,
                       commitHash |->
                           ClientCommitHash(ClientPayload(privateOrder).bytes,
                                            nonce, signer)]
    /\ UNCHANGED privacyVars

\* revealDelayMinutes and executionDelayMinutes the client is called with;
\* 15 and 5 are the defaults.
RevealDelayMinutes == {15, 60}
ExecutionDelayMinutes == {5}

\* PrivacyClient.submitCommitment: commitOrder(commitHash, minutes * 60).
submitCommitment(revealDelayMinutes) ==
    /\ client.stage = "generated"
    /\ commitOrder(client.signer, client.commitHash, revealDelayMinutes * 60)
    /\ client' = [client EXCEPT !.stage =
                     IF lastTx'.result = "ok" THEN "submitted" ELSE "failed"]

\* What abi.decode of revealAndScheduleOrder makes of the client's payload;
\* the decoded order is named by its orderHash.
ClientDecoded(privateOrder) ==
    [ok |-> ClientPayload(privateOrder).decodes,
     order |-> ClientPayload(privateOrder).orderHash,
     amount |-> ClientPayload(privateOrder).amount,
     orderHash |-> ClientPayload(privateOrder).orderHash]

\* PrivacyClient.revealOrder:
\* revealAndScheduleOrder(orderData, nonce, minutes * 60).
revealOrder(executionDelayMinutes) ==
    /\ client.stage = "submitted"
    /\ Revealed(client.signer, RevealedCommitHash(client.order, client.nonce),
                ClientDecoded(client.order), executionDelayMinutes * 60)
    /\ client' = [client EXCEPT !.stage =
                     IF lastTx'.result = "ok" THEN "revealed" ELSE @]

\* runCompletePrivacyFlow: orderHash = keccak256(commitment.orderData).
FlowOrderHash(privateOrder) == ClientPayload(privateOrder).keccak
\* An orderHash that is the key revealAndScheduleOrder stores under.
FlowOrderHashOfOrder(privateOrder) == ClientPayload(privateOrder).orderHash

\* PrivacyClient.executeOrder(orderHash): executeDelayedOrder(orderHash).
executeOrder(orderHash, fakeMultiplier, deployed) ==
    /\ client.stage = "revealed"
    /\ executeDelayedOrder(client.signer, orderHash, fakeMultiplier, deployed)
    /\ client' = [client EXCEPT !.stage =
                     IF lastTx'.result = "ok" THEN "executed" ELSE @]

\* A block is mined on the resolver's chain between two calls of the
\* client: block.timestamp grows by BlockInterval.  The client itself waits
\* for nothing.
ClientAdvanceTime ==
    /\ blockTime < MaxClientBlocks * BlockInterval
    /\ blockTime' = blockTime + BlockInterval
    /\ lastTx' = NoTx
    /\ UNCHANGED <<commitments, delayedOrders, fakeVolumes, ghost>>

ClientNext ==
    \/ \E signer \in Senders, makingAmount \in Amounts, makerAsset \in MakerAssets :
          createPrivateOrder(signer, makingAmount, makerAsset)
              /\ UNCHANGED <<swapVars, merkle, coordinator, utils, factory, sdk>>
    \/ \E privateOrder \in ClientOrders, nonce \in ClientNonces :
          generateCommitment(privateOrder.maker, privateOrder, nonce)
              /\ UNCHANGED <<swapVars, merkle, coordinator, utils, factory, sdk>>
    \/ \E revealDelayMinutes \in RevealDelayMinutes :
          submitCommitment(revealDelayMinutes)
              /\ UNCHANGED <<swapVars, merkle, coordinator, utils, factory, sdk>>
    \/ \E executionDelayMinutes \in ExecutionDelayMinutes :
          revealOrder(executionDelayMinutes)
              /\ UNCHANGED <<swapVars, merkle, coordinator, utils, factory, sdk>>
    \/ \E fakeMultiplier \in FakeMultipliers, deployed \in BOOLEAN :
          executeOrder(FlowOrderHash(client.order), fakeMultiplier, deployed)
              /\ UNCHANGED <<swapVars, merkle, coordinator, utils, factory, sdk>>
    \/ ClientAdvanceTime /\ UNCHANGED <<swapVars, offChainVars>>

\* The resolver and the client before the flow; the mappings are followed
\* on the keys of the client's payloads too.
ClientInit ==
    /\ SwapInit
    /\ ~order.allowMultipleFills
    /\ order.timeLocks.srcWithdrawal = 0
    /\ PrivacyIdleOver(ClientCommitKeys, ClientOrderKeys)
    /\ MerkleIdle
    /\ CoordinatorIdle
    /\ ClientIdle
    /\ UtilsIdle
    /\ FactoryIdle
    /\ SdkIdle

ClientSpec == ClientInit /\ [][ClientNext]_vars

\* C30: the hash of PrivacyClient.generateCommitment equals the contract's
\* keccak256(abi.encodePacked(orderData, nonce, committer)) of the same
\* orderData, nonce and signer, which is the hash revealAndScheduleOrder
\* recomputes for that sender: the commitment submitted with the client's
\* hash is found at reveal.
C30_CommitHashAgreement ==
    /\ [](client.stage \notin {"idle", "created", "rejected"} =>
             client.commitHash = RevealedCommitHash(client.order, client.nonce))
    /\ [][lastTx'.op = "revealAndScheduleOrder" =>
             /\ lastTx'.result # "CommitmentNotFound"
             /\ lastTx'.result = "ok" =>
                   /\ lastTx'.commitHash = client.commitHash
                   /\ commitments'[client.commitHash].revealed]_vars

\* The client's commitment with a two-byte nonce was submitted and revealed.
C30_Witness ==
    /\ client.stage = "revealed"
    /\ client.nonce = 256
    /\ client.order.makingAmount = LargeAmount
    /\ lastTx.op = "revealAndScheduleOrder"
    /\ lastTx.result = "ok"
    /\ commitments[client.commitHash].revealed

\* The DelayedOrder stored by the reveal of the client's payload.
ClientDelayedOrder == delayedOrders[FlowOrderHashOfOrder(client.order)]

\* C31: when PrivacyClient runs generateCommitment, submitCommitment,
\* revealOrder and executeOrder in that order and both delays have elapsed,
\* the revealed orderData decodes under the layout of
\* revealAndScheduleOrder (the reveal is not reverted by the decoding and
\* the amount stored is the amount the client encoded), the orderHash
\* passed to executeDelayedOrder is the key the reveal stored the
\* DelayedOrder under, and executeDelayedOrder finds the order.
C31_ClientFlowExecutes ==
    /\ [](client.stage = "revealed" =>
             /\ FlowOrderHash(client.order) = FlowOrderHashOfOrder(client.order)
             /\ ClientDelayedOrder.amount = client.order.makingAmount)
    /\ [][lastTx'.op = "revealAndScheduleOrder" =>
             lastTx'.result # "DecodeReverted"]_vars
    /\ [][lastTx'.op = "executeDelayedOrder" =>
             lastTx'.result # "CommitmentNotFound"]_vars

\* The client revealed its order, the execution delay elapsed, and
\* executeOrder did not find the order the reveal had stored.
C31_OrderNotFound ==
    /\ client.stage = "revealed"
    /\ lastTx.op = "executeDelayedOrder"
    /\ lastTx.orderHash = FlowOrderHash(client.order)
    /\ lastTx.result = "CommitmentNotFound"
    /\ ClientDelayedOrder.executeAfter > 0
    /\ blockTime >= ClientDelayedOrder.executeAfter
    /\ ClientDelayedOrder.amount = ClientSalt
    /\ ClientDelayedOrder.amount # client.order.makingAmount

\* ---------------------------------------------------------------------
\* PrivacyUtils: amount noise, delayed actions, mixed batches.
\* utils.time is block.timestamp of its chain and utils.last.at the
\* block.timestamp of the last call; delayedActions is the set of
\* the entries written so far (an id without an entry reads as 0);
\* tokenObfuscation is the array of the one token of the model.
\* fakeTransactions, which no function reads, is left out with
\* createFakeVolume.
MIN_NOISE_PERCENTAGE == 50
MAX_NOISE_PERCENTAGE == 300
MAX_TIMING_DELAY == 300

\* a - b for a >= b, digit by digit; the last element is the borrow that
\* leaves.
RECURSIVE SubFrom(_, _, _, _)
SubFrom(a, b, i, borrow) ==
    IF i > DigitCount THEN <<borrow>>
    ELSE LET t == DigitBase + a[i] - b[i] - borrow
         IN  <<t % DigitBase>> \o SubFrom(a, b, i + 1, IF t < DigitBase THEN 1 ELSE 0)
Sub(a, b) == SubSeq(SubFrom(a, b, 1, 0), 1, DigitCount)

\* The calls and the waits of one behaviour of PrivacyUtils.
MaxUtilsTxs == 2
MaxUtilsTicks == 2
\* The seeds (keccak256 of the timestamp and the arguments) of
\* obfuscateAmount: noise of 50, 51, 101 and 299 percent.
AmountSeeds == {0, 1, 51, 249}
\* realAmount: zero, one, an everyday amount, the largest amount whose noise
\* fits the uint256, and the largest of the range.
RealAmounts ==
    {Uint256(0), Uint256(1), SmallAmount, Div(MaxUint256, MAX_NOISE_PERCENTAGE),
     LargeAmount}
\* The seeds of _generateRandomDelay: delays of 1, 2 and 300 seconds.
DelaySeeds == {0, 1, 299}
OriginalTimestamps == {Uint256(0), MaxUint256}
OperationDatas == {<<>>, <<1>>}
ActionIds == {1}
MaxBatch == 3
\* operations: none to MaxBatch one-byte operations, or three equal ones.
Batches ==
    {[i \in 1..n |-> <<i>>] : n \in 0..MaxBatch} \cup {<<<<7>>, <<7>>, <<7>>>>}
\* keccak256(abi.encodePacked(block.timestamp, i)) for i = 0..n-1: every
\* value of the remainder modulo i + 1.
BatchSeeds(n) ==
    {hs \in [1..n -> 0..(MaxBatch - 1)] :
        \A i \in 1..n : hs[i] <= (IF i = 1 THEN 1 ELSE i - 1)}

UtilsCall(op, sender, result) ==
    [NoUtilsCall EXCEPT !.op = op, !.sender = sender, !.result = result,
                        !.at = utils.time]
UtilsEvent(name, id, x, y) == [name |-> name, id |-> id, x |-> x, y |-> y]

\* onlyOwner: another sender's call reverts and leaves the storage alone.
UtilsReverted(op, sender, result) ==
    utils' = [utils EXCEPT !.txs = @ + 1, !.last = UtilsCall(op, sender, result)]

noisePercentage(seed) ==
    MIN_NOISE_PERCENTAGE + (seed % (MAX_NOISE_PERCENTAGE - MIN_NOISE_PERCENTAGE))
noiseAmount(realAmount, seed) == Div(Mul(realAmount, noisePercentage(seed)), 100)

\* A display amount that subtracts the noise from an equal amount.
DisplayAmountGeq(realAmount, noise, seed) ==
    IF seed % 2 = 0 THEN Add(realAmount, noise)
    ELSE IF Leq(noise, realAmount) THEN Sub(realAmount, noise) ELSE noise

\* obfuscatedAmount of obfuscateAmount, lines 98-103.
DisplayAmount(realAmount, noise, seed) ==
    IF seed % 2 = 0 THEN Add(realAmount, noise)
    ELSE IF ~Leq(realAmount, noise) THEN Sub(realAmount, noise) ELSE noise

obfuscateAmount(sender, realAmount, seed) ==
    /\ utils.txs < MaxUtilsTxs
    /\ IF sender # "owner"
       THEN UtilsReverted("obfuscateAmount", sender, "OwnableUnauthorizedAccount")
       ELSE IF \/ MulOverflows(realAmount, noisePercentage(seed))
               \/ /\ seed % 2 = 0
                  /\ AddOverflows(realAmount, noiseAmount(realAmount, seed))
       THEN UtilsReverted("obfuscateAmount", sender, "Panic")
       ELSE LET noise == noiseAmount(realAmount, seed)
                obfuscatedAmount == DisplayAmount(realAmount, noise, seed)
            IN  utils' =
                  [utils EXCEPT
                     !.txs = @ + 1,
                     !.tokenObfuscation =
                         Append(@, [realAmount |-> realAmount,
                                    displayAmount |-> obfuscatedAmount,
                                    noiseLevel |-> noisePercentage(seed),
                                    timestamp |-> utils.time]),
                     !.last =
                         [UtilsCall("obfuscateAmount", sender, "ok") EXCEPT
                            !.input = realAmount,
                            !.value = obfuscatedAmount,
                            !.noise = noise,
                            !.events =
                                <<UtilsEvent("VolumeNoiseAdded", 0, realAmount, noise)>>]]

\* A delay that leaves the added second out.
RandomDelayFromZero(seed) == seed % MAX_TIMING_DELAY

_generateRandomDelay(seed) == (seed % MAX_TIMING_DELAY) + 1

\* delayedActions[actionId], and the mapping after a write.
DelayedAction(actionId) ==
    IF \E e \in utils.delayedActions : e.id = actionId
    THEN (CHOOSE e \in utils.delayedActions : e.id = actionId).executeAfter
    ELSE Uint256(0)
DelayedActionsWith(actionId, executeAfter) ==
    {e \in utils.delayedActions : e.id # actionId}
        \cup {[id |-> actionId, executeAfter |-> executeAfter]}

createStealthOperation(sender, operationData, seed) ==
    /\ utils.txs < MaxUtilsTxs
    /\ IF sender # "owner"
       THEN UtilsReverted("createStealthOperation", sender,
                          "OwnableUnauthorizedAccount")
       ELSE LET operationId ==
                    keccak256(encodePacked(operationData, utils.time, sender))
                executeAfter ==
                    Add(Uint256(utils.time), Uint256(_generateRandomDelay(seed)))
            IN  utils' =
                  [utils EXCEPT
                     !.txs = @ + 1,
                     !.delayedActions = DelayedActionsWith(operationId, executeAfter),
                     !.last =
                         [UtilsCall("createStealthOperation", sender, "ok") EXCEPT
                            !.id = operationId,
                            !.value = executeAfter,
                            !.events =
                                <<UtilsEvent("StealthOperationExecuted", operationId,
                                             executeAfter, Uint256(0))>>]]

obfuscateTiming(sender, actionId, originalTimestamp, seed) ==
    /\ utils.txs < MaxUtilsTxs
    /\ IF sender # "owner"
       THEN UtilsReverted("obfuscateTiming", sender, "OwnableUnauthorizedAccount")
       ELSE IF AddOverflows(originalTimestamp, Uint256(_generateRandomDelay(seed)))
       THEN UtilsReverted("obfuscateTiming", sender, "Panic")
       ELSE LET obfuscatedTimestamp ==
                    Add(originalTimestamp, Uint256(_generateRandomDelay(seed)))
            IN  utils' =
                  [utils EXCEPT
                     !.txs = @ + 1,
                     !.delayedActions =
                         DelayedActionsWith(actionId, obfuscatedTimestamp),
                     !.last =
                         [UtilsCall("obfuscateTiming", sender, "ok") EXCEPT
                            !.id = actionId,
                            !.input = originalTimestamp,
                            !.value = obfuscatedTimestamp,
                            !.events =
                                <<UtilsEvent("TimingObfuscated", actionId,
                                             originalTimestamp, obfuscatedTimestamp)>>]]

\* isActionReady, a view: executeAfter > 0 && block.timestamp >= executeAfter.
isActionReady(actionId) ==
    /\ DelayedAction(actionId) # Uint256(0)
    /\ Leq(DelayedAction(actionId), Uint256(utils.time))

IsActionReadyCall(sender, actionId) ==
    /\ utils.txs < MaxUtilsTxs
    /\ utils' =
         [utils EXCEPT
            !.txs = @ + 1,
            !.last = [UtilsCall("isActionReady", sender, "ok") EXCEPT
                        !.id = actionId,
                        !.ready = isActionReady(actionId)]]

\* A swap that forgets the element it overwrote.
SwapNoTemp(indices, i, j) == [indices EXCEPT ![i + 1] = indices[j + 1]]

\* One step of the Fisher-Yates loop, lines 245-247; indices[i] of the code
\* is indices[i + 1] here.
Swap(indices, i, j) ==
    [indices EXCEPT ![i + 1] = indices[j + 1], ![j + 1] = indices[i + 1]]

\* The loop from i down to 1; hs[i + 1] is the hash of (block.timestamp, i).
RECURSIVE ShuffleFrom(_, _, _)
ShuffleFrom(indices, hs, i) ==
    IF i = 0 THEN indices
    ELSE ShuffleFrom(Swap(indices, i, hs[i + 1] % (i + 1)), hs, i - 1)

_shuffleArray(length, hs) ==
    ShuffleFrom([i \in 1..length |-> i - 1], hs, length - 1)

\* The events of the loop of executeMixedBatch from position i on.
RECURSIVE BatchEvents(_, _, _, _)
BatchEvents(operations, indices, hs, i) ==
    IF i >= Len(indices) THEN <<>>
    ELSE LET operation == operations[indices[i + 1] + 1]
             miniDelay == hs[i + 1] % 10
         IN  (IF miniDelay > 0
              THEN <<UtilsEvent("TimingObfuscated", keccak256(operation),
                                Uint256(utils.time),
                                Uint256(utils.time + miniDelay))>>
              ELSE <<>>)
             \o <<UtilsEvent("StealthOperationExecuted", keccak256(operation),
                             Uint256(utils.time), Uint256(0))>>
             \o BatchEvents(operations, indices, hs, i + 1)

executeMixedBatch(sender, operations, hs) ==
    /\ utils.txs < MaxUtilsTxs
    /\ IF sender # "owner"
       THEN UtilsReverted("executeMixedBatch", sender, "OwnableUnauthorizedAccount")
       ELSE IF Len(operations) < 3
       THEN utils' =
              [utils EXCEPT
                 !.txs = @ + 1,
                 !.last =
                     [UtilsCall("executeMixedBatch", sender,
                                "Need at least 3 operations for mixing") EXCEPT
                        !.operations = operations]]
       ELSE LET indices == _shuffleArray(Len(operations), hs)
            IN  utils' =
                  [utils EXCEPT
                     !.txs = @ + 1,
                     !.last =
                         [UtilsCall("executeMixedBatch", sender, "ok") EXCEPT
                            !.operations = operations,
                            !.indices = indices,
                            !.events = BatchEvents(operations, indices, hs, 0)]]

cleanup(sender) ==
    /\ utils.txs < MaxUtilsTxs
    /\ IF sender # "owner"
       THEN UtilsReverted("cleanup", sender, "OwnableUnauthorizedAccount")
       ELSE utils' =
              [utils EXCEPT
                 !.txs = @ + 1,
                 !.last =
                     [UtilsCall("cleanup", sender, "ok") EXCEPT
                        !.events =
                            <<UtilsEvent("StealthOperationExecuted",
                                         keccak256(<<99, 108, 101, 97, 110, 117, 112>>),
                                         Uint256(utils.time), Uint256(0))>>]]

\* The chain of PrivacyUtils mines blocks: a second, or a second short of
\* MAX_TIMING_DELAY, later.
UtilsWait(seconds) ==
    /\ utils.ticks < MaxUtilsTicks
    /\ utils' = [utils EXCEPT !.time = @ + seconds, !.ticks = @ + 1]

UtilsFrame ==
    UNCHANGED <<swapVars, privacyVars, merkle, coordinator, client, factory, sdk>>

UtilsNext ==
    \/ \E sender \in Senders, realAmount \in RealAmounts, seed \in AmountSeeds :
          obfuscateAmount(sender, realAmount, seed) /\ UtilsFrame
    \/ \E sender \in Senders, operationData \in OperationDatas,
          seed \in DelaySeeds :
          createStealthOperation(sender, operationData, seed) /\ UtilsFrame
    \/ \E sender \in Senders,
          actionId \in ActionIds \cup {e.id : e \in utils.delayedActions},
          originalTimestamp \in OriginalTimestamps, seed \in DelaySeeds :
          obfuscateTiming(sender, actionId, originalTimestamp, seed) /\ UtilsFrame
    \/ \E sender \in Senders,
          actionId \in ActionIds \cup {e.id : e \in utils.delayedActions} :
          IsActionReadyCall(sender, actionId) /\ UtilsFrame
    \/ \E sender \in Senders, operations \in Batches :
          \E hs \in BatchSeeds(Len(operations)) :
              executeMixedBatch(sender, operations, hs) /\ UtilsFrame
    \/ \E sender \in Senders : cleanup(sender) /\ UtilsFrame
    \/ \E seconds \in {1, MAX_TIMING_DELAY - 1} :
          UtilsWait(seconds) /\ UtilsFrame

\* PrivacyUtils is deployed next to the resolver of PrivacyInit.
UtilsSpec == PrivacyInit /\ [][UtilsNext]_vars

\* The positions 0..n-1 at which `indices` holds the index k.
PositionsOf(indices, k) == {i \in 1..Len(indices) : indices[i] = k}
\* The StealthOperationExecuted events of a call, in order.
ExecutedEvents(events) ==
    SelectSeq(events, LAMBDA e : e.name = "StealthOperationExecuted")

\* C33: after executeMixedBatch of n >= 3 operations, for every choice of
\* the swap indices, the shuffled index array is a permutation of 0..n-1
\* (every index at exactly one position) and StealthOperationExecuted is
\* emitted once per position, for the operation at the index of that
\* position; a batch of fewer than 3 operations is rejected with nothing
\* processed.
C33_BatchIsPermutation ==
    utils.last.op = "executeMixedBatch" /\ utils.last.sender = "owner" =>
        LET n == Len(utils.last.operations)
            executed == ExecutedEvents(utils.last.events)
        IN  IF n >= 3
            THEN /\ utils.last.result = "ok"
                 /\ Len(utils.last.indices) = n
                 /\ \A k \in 0..(n - 1) :
                        Cardinality(PositionsOf(utils.last.indices, k)) = 1
                 /\ Len(executed) = n
                 /\ \A i \in 1..n :
                        executed[i].id =
                            keccak256(utils.last.operations[utils.last.indices[i] + 1])
            ELSE /\ utils.last.result # "ok"
                 /\ utils.last.indices = <<>>
                 /\ utils.last.events = <<>>

\* A batch of MaxBatch operations was processed in an order that moved
\* every operation, with a delay event before some operation.
C33_Witness ==
    /\ utils.last.op = "executeMixedBatch"
    /\ utils.last.result = "ok"
    /\ Len(utils.last.operations) = MaxBatch
    /\ \A i \in 1..MaxBatch : utils.last.indices[i] # i - 1
    /\ Len(utils.last.events) > MaxBatch

\* The last entry of tokenObfuscation.
LastObfuscation == utils.tokenObfuscation[Len(utils.tokenObfuscation)]

\* C34: when obfuscateAmount returns, the realAmount it stored is the
\* realAmount it was given, the stored noise level lies in
\* MIN_NOISE_PERCENTAGE..MAX_NOISE_PERCENTAGE and gives the noise amount,
\* the display amount returned and stored is realAmount + noise, or
\* realAmount - noise with realAmount > noise, or the noise itself, and
\* the display amount of a non-zero realAmount is not zero.
C34_ObfuscateAmount ==
    utils.last.op = "obfuscateAmount" /\ utils.last.result = "ok" =>
        LET realAmount == utils.last.input
            noise == utils.last.noise
            display == utils.last.value
        IN  /\ utils.tokenObfuscation # <<>>
            /\ LastObfuscation.realAmount = realAmount
            /\ LastObfuscation.displayAmount = display
            /\ LastObfuscation.noiseLevel >= MIN_NOISE_PERCENTAGE
            /\ LastObfuscation.noiseLevel <= MAX_NOISE_PERCENTAGE
            /\ ~MulOverflows(realAmount, LastObfuscation.noiseLevel)
            /\ noise = Div(Mul(realAmount, LastObfuscation.noiseLevel), 100)
            /\ \/ ~AddOverflows(realAmount, noise) /\ display = Add(realAmount, noise)
               \/ /\ ~Leq(realAmount, noise)
                  /\ ~AddOverflows(display, noise)
                  /\ Add(display, noise) = realAmount
               \/ display = noise
            /\ realAmount # Uint256(0) => display # Uint256(0)

\* obfuscateAmount returned the noise of 101 percent of the amount 1, which
\* equals the amount, after it had returned 100 - 51 for the amount 100.
C34_Witness ==
    /\ utils.last.op = "obfuscateAmount"
    /\ utils.last.result = "ok"
    /\ Len(utils.tokenObfuscation) = 2
    /\ utils.tokenObfuscation[1].realAmount = SmallAmount
    /\ utils.tokenObfuscation[1].noiseLevel = 51
    /\ utils.tokenObfuscation[1].displayAmount = Uint256(49)
    /\ utils.last.input = Uint256(1)
    /\ LastObfuscation.noiseLevel = 101
    /\ utils.last.noise = utils.last.input
    /\ utils.last.value = Uint256(1)

\* The ids that delayedActions holds an entry for.
RecordedActions == {e.id : e \in utils.delayedActions}

\* C35: the executeAfter recorded by createStealthOperation at time now is
\* in now + 1 .. now + MAX_TIMING_DELAY; the time recorded by
\* obfuscateTiming(id, t0) is t0 plus a delay of 1..MAX_TIMING_DELAY;
\* isActionReady(id) is false at every time before the recorded value of
\* id and true at every time from it on, and false for an id that was
\* never recorded.
C35_TimingObfuscation ==
    /\ utils.last.op = "createStealthOperation" /\ utils.last.result = "ok" =>
           /\ utils.last.at <= utils.time
           /\ DelayedAction(utils.last.id) = utils.last.value
           /\ Leq(Uint256(utils.last.at + 1), utils.last.value)
           /\ Leq(utils.last.value, Uint256(utils.last.at + MAX_TIMING_DELAY))
    /\ utils.last.op = "obfuscateTiming" /\ utils.last.result = "ok" =>
           /\ DelayedAction(utils.last.id) = utils.last.value
           /\ Leq(utils.last.input, utils.last.value)
           /\ Leq(Uint256(1), Sub(utils.last.value, utils.last.input))
           /\ Leq(Sub(utils.last.value, utils.last.input), Uint256(MAX_TIMING_DELAY))
    /\ \A e \in utils.delayedActions :
           isActionReady(e.id) <=> Leq(e.executeAfter, Uint256(utils.time))
    /\ \A actionId \in (ActionIds \cup {utils.last.id}) \ RecordedActions :
           ~isActionReady(actionId)
    /\ utils.last.op = "isActionReady" /\ utils.last.at = utils.time =>
           utils.last.ready = isActionReady(utils.last.id)

\* A stealth operation created at time 0 with the longest delay was not
\* ready (never asked, or asked a second early): isActionReady returned
\* true at the recorded time.
C35_Witness ==
    /\ utils.last.op = "isActionReady"
    /\ utils.last.id \notin ActionIds
    /\ DelayedAction(utils.last.id) = Uint256(MAX_TIMING_DELAY)
    /\ utils.last.at = MAX_TIMING_DELAY
    /\ utils.last.ready

\* ---------------------------------------------------------------------
\* TestEscrowFactory, deployed by initChain on the source and on the
\* destination chain.
\* The constructor of EscrowFactory deploys the source escrow implementation
\* with its fifth argument as rescue delay and the destination escrow
\* implementation with its sixth.
EscrowFactory(rescueDelaySrc, rescueDelayDst) ==
    [NoFactory EXCEPT !.deployed = TRUE,
                      !.srcRescueDelay = rescueDelaySrc,
                      !.dstRescueDelay = rescueDelayDst]

\* The constructor of TestEscrowFactory: the arguments it hands to
\* EscrowFactory, lines 16-23; the arguments it was given are kept for the
\* comparison.
TestEscrowFactory(rescueDelaySrc, rescueDelayDst) ==
    [EscrowFactory(rescueDelayDst, rescueDelayDst) EXCEPT
        !.rescueDelaySrc = rescueDelaySrc,
        !.rescueDelayDst = rescueDelayDst]

\* uint32 rescue delays: none, a second, the 30 minutes of initChain, a day.
RescueDelays == {0, 1, 60 * 30, 86400}

\* deploy(factoryContract, [..., rescueDelaySrc, rescueDelayDst]) on a chain
\* that has no factory yet.
DeployFactory(chain, rescueDelaySrc, rescueDelayDst) ==
    /\ ~factory[chain].deployed
    /\ factory' =
         [factory EXCEPT ![chain] = TestEscrowFactory(rescueDelaySrc, rescueDelayDst)]

FactoryNext ==
    \E chain \in Sides, rescueDelaySrc \in RescueDelays,
       rescueDelayDst \in RescueDelays :
        /\ DeployFactory(chain, rescueDelaySrc, rescueDelayDst)
        /\ UNCHANGED <<swapVars, privacyVars, merkle, coordinator, client, utils, sdk>>

FactorySpec == PrivacyInit /\ [][FactoryNext]_vars

\* C36: the source-escrow rescue delay of a deployed TestEscrowFactory is
\* its constructor argument rescueDelaySrc and the destination-escrow
\* rescue delay is its constructor argument rescueDelayDst, for every pair
\* of arguments.
C36_RescueDelays ==
    \A chain \in Sides :
        factory[chain].deployed =>
            /\ factory[chain].srcRescueDelay = factory[chain].rescueDelaySrc
            /\ factory[chain].dstRescueDelay = factory[chain].rescueDelayDst

\* The factory of the source chain was deployed with a source rescue delay
\* of a second and a destination rescue delay of 30 minutes: its source
\* escrows are rescued after 30 minutes.
C36_SrcDelayIsDstArgument ==
    /\ factory["src"].deployed
    /\ factory["src"].rescueDelaySrc = 1
    /\ factory["src"].rescueDelayDst = 60 * 30
    /\ factory["src"].srcRescueDelay = 60 * 30
    /\ factory["src"].dstRescueDelay = 60 * 30

\* ---------------------------------------------------------------------
\* The chain predicates of the SDK: chains.ts and
\* cross-chain-order/constant.ts, and the address tables of deployments.
\* enum NetworkEnum, by member name.
NetworkEnum ==
    [ETHEREUM |-> 1, POLYGON |-> 137, ZKSYNC |-> 324, BINANCE |-> 56,
     ARBITRUM |-> 42161, AVALANCHE |-> 43114, OPTIMISM |-> 10, FANTOM |-> 250,
     GNOSIS |-> 100, COINBASE |-> 8453, LINEA |-> 59144, SONIC |-> 146,
     UNICHAIN |-> 130, ETHEREUM_SEPOLIA |-> 11155111,
     ARBITRUM_SEPOLIA |-> 421614]

\* Object.values(NetworkEnum): a numeric enum maps its names to its numbers
\* and its numbers back to its names, so the values are both.
NetworkEnumValues ==
    {JsNumber(NetworkEnum[name]) : name \in DOMAIN NetworkEnum}
        \cup {JsString(name) : name \in DOMAIN NetworkEnum}

SupportedChains ==
    <<NetworkEnum.ETHEREUM, NetworkEnum.POLYGON, NetworkEnum.BINANCE,
      NetworkEnum.OPTIMISM, NetworkEnum.ARBITRUM, NetworkEnum.AVALANCHE,
      NetworkEnum.GNOSIS, NetworkEnum.COINBASE, NetworkEnum.ZKSYNC,
      NetworkEnum.LINEA, NetworkEnum.SONIC, NetworkEnum.UNICHAIN,
      NetworkEnum.ETHEREUM_SEPOLIA, NetworkEnum.ARBITRUM_SEPOLIA>>

\* isSupportedChain of chains.ts: SupportedChains.includes(chain).
isSupportedChain(chain) ==
    \E i \in 1..Len(SupportedChains) : chain = JsNumber(SupportedChains[i])

\* isSupportedChain of cross-chain-order/constant.ts:
\* Object.values(NetworkEnum).includes(chainId).
constant_isSupportedChain(chainId) == chainId \in NetworkEnumValues

\* isMainnetChain of chains.ts: Object.values(NetworkEnum).includes(chainId).
isMainnetChain(chainId) == chainId \in NetworkEnumValues

\* The keys of TRUE_ERC20, ESCROW_SRC_IMPLEMENTATION,
\* ESCROW_DST_IMPLEMENTATION and ESCROW_FACTORY: the four tables are written
\* with the same fifteen members.
DeploymentKeys ==
    {NetworkEnum.ETHEREUM, NetworkEnum.POLYGON, NetworkEnum.OPTIMISM,
     NetworkEnum.BINANCE, NetworkEnum.AVALANCHE, NetworkEnum.COINBASE,
     NetworkEnum.FANTOM, NetworkEnum.GNOSIS, NetworkEnum.ARBITRUM,
     NetworkEnum.ZKSYNC, NetworkEnum.LINEA, NetworkEnum.SONIC,
     NetworkEnum.UNICHAIN, NetworkEnum.ETHEREUM_SEPOLIA,
     NetworkEnum.ARBITRUM_SEPOLIA}
\* The key of table[chain]: a property key is a string, a number is turned
\* into its decimal text and a string is taken as it is, so table[1] and
\* table['1'] are the same entry.
PropertyKey(chain) ==
    IF chain.type = "number" THEN ToString(chain.number) ELSE chain.string
\* The own keys of each table: the computed keys [NetworkEnum.X] as strings.
Deployments ==
    LET keys == {PropertyKey(JsNumber(id)) : id \in DeploymentKeys}
    IN  [TRUE_ERC20 |-> keys, ESCROW_SRC_IMPLEMENTATION |-> keys,
         ESCROW_DST_IMPLEMENTATION |-> keys, ESCROW_FACTORY |-> keys]
\* The tables in which table[chain] is an entry of the table.
EntriesOf(chain) ==
    {table \in DOMAIN Deployments : PropertyKey(chain) \in Deployments[table]}

\* The ids of the enum that name a test network, and the others.
TestnetIds == {NetworkEnum.ETHEREUM_SEPOLIA, NetworkEnum.ARBITRUM_SEPOLIA}
MainnetIds == {NetworkEnum[name] : name \in DOMAIN NetworkEnum} \ TestnetIds

\* The chains asked about: every member of the enum, ids that are not
\* members, a member's name, and ids written as strings.
ChainInputs ==
    {JsNumber(NetworkEnum[name]) : name \in DOMAIN NetworkEnum}
        \cup {JsNumber(0), JsNumber(2), JsNumber(31337), JsString("ETHEREUM"),
              JsString("1"), JsString("250"), JsString("11155111"),
              JsString("2"), JsString("01")}

SdkInit ==
    /\ SwapInit
    /\ ~order.allowMultipleFills
    /\ order.timeLocks.srcWithdrawal = 0
    /\ PrivacyIdle
    /\ MerkleIdle
    /\ CoordinatorIdle
    /\ ClientIdle
    /\ UtilsIdle
    /\ FactoryIdle
    /\ sdk \in {[NoSdk EXCEPT !.chain = chain] : chain \in ChainInputs}

SdkCall(name) == name \notin sdk.called
CallIsSupportedChain ==
    /\ SdkCall("chains.isSupportedChain")
    /\ sdk' = [sdk EXCEPT !.called = @ \cup {"chains.isSupportedChain"},
                          !.supportedChain = isSupportedChain(sdk.chain)]
CallConstantIsSupportedChain ==
    /\ SdkCall("constant.isSupportedChain")
    /\ sdk' = [sdk EXCEPT !.called = @ \cup {"constant.isSupportedChain"},
                          !.supportedNetwork = constant_isSupportedChain(sdk.chain)]
CallIsMainnetChain ==
    /\ SdkCall("isMainnetChain")
    /\ sdk' = [sdk EXCEPT !.called = @ \cup {"isMainnetChain"},
                          !.mainnet = isMainnetChain(sdk.chain)]
LookUpDeployments ==
    /\ SdkCall("deployments")
    /\ sdk' = [sdk EXCEPT !.called = @ \cup {"deployments"},
                          !.entries = EntriesOf(sdk.chain)]

SdkFrame ==
    UNCHANGED <<swapVars, privacyVars, merkle, coordinator, client, utils, factory>>
SdkNext ==
    \/ CallIsSupportedChain /\ SdkFrame
    \/ CallConstantIsSupportedChain /\ SdkFrame
    \/ CallIsMainnetChain /\ SdkFrame
    \/ LookUpDeployments /\ SdkFrame

SdkSpec == SdkInit /\ [][SdkNext]_vars

\* C37: for every chain id the isSupportedChain of chains.ts and the
\* isSupportedChain of cross-chain-order/constant.ts give the same answer,
\* and a chain id that either accepts has an entry in each of TRUE_ERC20,
\* ESCROW_SRC_IMPLEMENTATION, ESCROW_DST_IMPLEMENTATION and ESCROW_FACTORY.
C37_SupportedChainsAgree ==
    sdk.chain.type = "number" =>
        /\ {"chains.isSupportedChain", "constant.isSupportedChain"} \subseteq sdk.called
               => sdk.supportedChain = sdk.supportedNetwork
        /\ "deployments" \in sdk.called /\ (sdk.supportedChain \/ sdk.supportedNetwork)
               => sdk.entries = DOMAIN Deployments

\* Asked about FANTOM (250), which has an entry in each table, chains.ts
\* answered false and constant.ts answered true.
C37_FantomDisagreement ==
    /\ sdk.chain = JsNumber(NetworkEnum.FANTOM)
    /\ {"chains.isSupportedChain", "constant.isSupportedChain", "deployments"}
           \subseteq sdk.called
    /\ ~sdk.supportedChain
    /\ sdk.supportedNetwork
    /\ sdk.entries = DOMAIN Deployments

\* C38: isMainnetChain(chainId) is true for the mainnet chain ids and for
\* no other id: it is false for ETHEREUM_SEPOLIA (11155111), for
\* ARBITRUM_SEPOLIA (421614) and for every id that is not in the enum.
C38_MainnetChains ==
    sdk.chain.type = "number" /\ "isMainnetChain" \in sdk.called =>
        (sdk.mainnet <=> sdk.chain.number \in MainnetIds)

\* isMainnetChain answered true for ETHEREUM_SEPOLIA.
C38_SepoliaIsMainnet ==
    /\ sdk.chain = JsNumber(11155111)
    /\ sdk.chain.number \in TestnetIds
    /\ "isMainnetChain" \in sdk.called
    /\ sdk.mainnet

\* An id written as a string finds the entries of its chain in all four
\* tables, while both predicates, which compare without conversion, reject it.
StringKeyFindsEntries ==
    /\ sdk.chain = JsString("250")
    /\ {"chains.isSupportedChain", "constant.isSupportedChain", "deployments"}
           \subseteq sdk.called
    /\ ~sdk.supportedChain
    /\ ~sdk.supportedNetwork
    /\ sdk.entries = DOMAIN Deployments

\* createPrivateOrder was called with the maker asset as
\* runCompletePrivacyFlow writes it: signOrder threw, the call was rejected
\* and no transaction was sent.
FlowOrderRejected ==
    /\ client.stage = "rejected"
    /\ client.order.makerAsset = FlowMakerAsset
    /\ signOrder(client.order).threw
    /\ lastTx = NoTx
    /\ ghost.txs = 0

\* createPrivateOrder was called with the maker asset written in upper
\* case: the text has one case, signOrder signed, and the commitment of the
\* order was generated from the same bytes as for the EIP-55 form.
UpperCaseOrderSigned ==
    /\ client.stage = "generated"
    /\ client.order.makerAsset = UpperCaseMakerAsset
    /\ ~signOrder(client.order).threw
    /\ Len(signOrder(client.order).signature) = 65
    /\ client.orderData = ClientOrderData(EncodedOrder(client.order))

====
